---- MODULE Spec2Model ----
(***************************************************************************)
(* A model of things-cli: the URL-scheme command builder and dispatch      *)
(* layer of things.py and the locale detection of things_jxa.py.           *)
(*                                                                         *)
(* Strings are sequences of tokens.  A token is either one character that  *)
(* the program treats specially (space, comma, line break, the reserved    *)
(* URL characters), one percent-escape triplet such as "%20", or a word    *)
(* made only of unreserved characters [A-Za-z0-9_.~-], which strip, split  *)
(* and quote all leave intact.                                             *)
(*                                                                         *)
(* Python values are tagged records: None, S(string), B(boolean), L(list   *)
(* of strings).                                                            *)
(***************************************************************************)
EXTENDS Integers, Sequences, FiniteSets, TLC

VARIABLES
    pc,          \* "idle" before the command handler runs, "done" after
    command,     \* the CLI command that ran
    args,        \* the option values the handler received
    auth_token,  \* the handler's local auth_token (get_auth_token's result)
    params,      \* the Parameter Set the handler assembled
    built,       \* the request strings build_url returned, in order
    dispatched,  \* the calls of execute_url: [url, dry_run], in order
    launched,    \* the launches of the open handler: [url, result], in order
    console,     \* what the handler printed: <<kind, text>>, in order
    exit_code,   \* the process exit code (-1 while running)
    osascript,   \* the launches of the interpreter: [script, reply], in order
    written,     \* the files written: [path, content], in order
    call         \* a direct call of one helper function: argument and result

vars == <<pc, command, args, auth_token, params, built, dispatched, launched,
          console, exit_code, osascript, written, call>>

(***************************************************************************)
(* Bounds of the model.                                                    *)
(***************************************************************************)
MaxOpts == 2      \* optional options given on one command line
MaxLen == 4       \* tokens in a free-text string handed to split_items
MaxParams == 2    \* entries of a Parameter Set handed to build_url directly
MaxStrLen == 2    \* tokens in a string value of such a Parameter Set
MaxListLen == 2   \* elements in a list value of such a Parameter Set
MaxNames == 7     \* list names in the host application's reply

(***************************************************************************)
(* Python values.                                                          *)
(***************************************************************************)
None == [t |-> "none"]
S(s) == [t |-> "str", v |-> s]
B(b) == [t |-> "bool", v |-> b]
L(l) == [t |-> "list", v |-> l]

\* Python truthiness: `if x` / `not x`.
Truthy(x) ==
    CASE x.t = "none" -> FALSE
      [] x.t = "bool" -> x.v
      [] x.t = "str" -> x.v # <<>>
      [] x.t = "list" -> x.v # <<>>

(***************************************************************************)
(* Strings.                                                                *)
(***************************************************************************)
NL == "\n"
Whitespace == {" ", NL, "\t"}

\* s.replace(old, new) for single-token old and new.
Replace(s, old, new) == [i \in 1..Len(s) |-> IF s[i] = old THEN new ELSE s[i]]

\* Position of the first sep in s, or 0.
FirstIndex(s, sep) ==
    IF \E i \in 1..Len(s) : s[i] = sep
    THEN CHOOSE i \in 1..Len(s) : s[i] = sep /\ \A j \in 1..(i - 1) : s[j] # sep
    ELSE 0

\* s.split(sep): the pieces between the separators, empty pieces kept.
RECURSIVE SplitOn(_, _)
SplitOn(s, sep) ==
    LET i == FirstIndex(s, sep)
    IN  IF i = 0 THEN <<s>>
        ELSE <<SubSeq(s, 1, i - 1)>> \o SplitOn(SubSeq(s, i + 1, Len(s)), sep)

\* s.strip(): leading and trailing whitespace removed.
RECURSIVE Strip(_)
Strip(s) ==
    IF s = <<>> THEN s
    ELSE IF Head(s) \in Whitespace THEN Strip(Tail(s))
    ELSE IF s[Len(s)] \in Whitespace THEN Strip(SubSeq(s, 1, Len(s) - 1))
    ELSE s

\* sep.join(parts) for a one-token separator.
RECURSIVE Join(_, _)
Join(sep, parts) ==
    IF parts = <<>> THEN <<>>
    ELSE IF Len(parts) = 1 THEN parts[1]
    ELSE parts[1] \o <<sep>> \o Join(sep, Tail(parts))

\* split_items: None for None or the empty string, else the list of the
\* trimmed non-empty pieces between commas and line breaks.
split_items(items) ==
    IF ~Truthy(items) THEN None
    ELSE LET pieces == SplitOn(Replace(items.v, ",", NL), NL)
             items_list == [i \in 1..Len(pieces) |-> Strip(pieces[i])]
         IN  L(SelectSeq(items_list, LAMBDA item : item # <<>>))

(***************************************************************************)
(* Percent-encoding: urllib.parse.quote(s, safe='').                       *)
(***************************************************************************)
\* The characters quote escapes; every other token is an unreserved word.
EscapedChars == {" ", NL, "\t", ",", "+", "&", "=", "/", "?", "#", "%", ":",
                 "\"", "[", "]", "{", "}"}

PercentEscape(c) ==
    CASE c = " " -> "%20"
      [] c = NL -> "%0A"
      [] c = "\t" -> "%09"
      [] c = "," -> "%2C"
      [] c = "+" -> "%2B"
      [] c = "&" -> "%26"
      [] c = "=" -> "%3D"
      [] c = "/" -> "%2F"
      [] c = "?" -> "%3F"
      [] c = "#" -> "%23"
      [] c = "%" -> "%25"
      [] c = ":" -> "%3A"
      [] c = "\"" -> "%22"
      [] c = "[" -> "%5B"
      [] c = "]" -> "%5D"
      [] c = "{" -> "%7B"
      [] c = "}" -> "%7D"

\* A mutant of quote_char: urllib's quote_plus, the default of urlencode.
quote_char_plus(c) ==
    IF c = " " THEN "+" ELSE IF c \in EscapedChars THEN PercentEscape(c) ELSE c

\* quote with safe='' on one character.
quote_char(c) == IF c \in EscapedChars THEN PercentEscape(c) ELSE c

quote(s) == [i \in 1..Len(s) |-> quote_char(s[i])]

\* urlencode(d, safe='', quote_via=quote): quoted key=value joined by &.
urlencode(d) ==
    Join("&", [i \in 1..Len(d) |-> quote(d[i][1]) \o <<"=">> \o quote(d[i][2])])

(***************************************************************************)
(* build_url.                                                              *)
(***************************************************************************)
\* str(b) of a bool.
PyStrBool(b) == IF b THEN <<"True">> ELSE <<"False">>

\* s.lower().
LowerTok(w) ==
    CASE w = "True" -> "true"
      [] w = "False" -> "false"
      [] w = "Today" -> "today"
      [] w = "INBOX" -> "inbox"
      [] OTHER -> w

Lower(s) == [i \in 1..Len(s) |-> LowerTok(s[i])]

\* A mutant of encode_value: the isinstance(value, bool) branch is missing,
\* so a boolean falls to str(value).
encode_value_nobool(value) ==
    CASE value.t = "bool" -> PyStrBool(value.v)
      [] value.t = "list" -> Join(NL, value.v)
      [] OTHER -> value.v

\* The encoding of one non-None value by type.
encode_value(value) ==
    CASE value.t = "bool" -> Lower(PyStrBool(value.v))
      [] value.t = "list" -> Join(NL, value.v)
      [] OTHER -> value.v

\* The filter of build_url: entries whose value is not None.
not_none(p) == p[2].t # "none"

build_url(cmd, ps) ==
    LET kept == SelectSeq(ps, not_none)
        encoded_params == [i \in 1..Len(kept) |->
                              <<<<kept[i][1]>>, encode_value(kept[i][2])>>]
    IN  IF encoded_params # <<>>
        THEN <<"things:///", cmd, "?">> \o urlencode(encoded_params)
        ELSE <<"things:///", cmd>>

(***************************************************************************)
(* execute_url.                                                            *)
(***************************************************************************)
\* What launching `open` can do: exit 0, exit nonzero, or not be there.
OpenResults == {"zero", "nonzero", "missing"}

\* A mutant of execute_url: the dry run also launches the handler.
execute_url_launching(url, dry_run, result) ==
    [console |-> IF dry_run THEN <<<<"would-execute", url>>>>
                 ELSE IF result = "zero" THEN <<<<"sent", <<>>>>>>
                 ELSE <<<<"error-open", <<result>>>>>>,
     launched |-> <<[url |-> url, result |-> result]>>,
     raised |-> result # "zero"]

\* A mutant of execute_url: a failed launch is tried once more.
execute_url_retry(url, dry_run, result) ==
    IF dry_run
    THEN [console |-> <<<<"would-execute", url>>>>, launched |-> <<>>,
          raised |-> FALSE]
    ELSE IF result = "zero"
    THEN [console |-> <<<<"sent", <<>>>>>>,
          launched |-> <<[url |-> url, result |-> result]>>, raised |-> FALSE]
    ELSE [console |-> <<<<"error", <<>>>>>>,
          launched |-> <<[url |-> url, result |-> result],
                         [url |-> url, result |-> result]>>,
          raised |-> TRUE]

\* execute_url(url, dry_run) when launching `open` would end in `result`:
\* what it prints, what it launches, and whether it raises typer.Exit(1).
execute_url(url, dry_run, result) ==
    IF dry_run
    THEN [console |-> <<<<"would-execute", url>>>>, launched |-> <<>>,
          raised |-> FALSE]
    ELSE IF result = "zero"
    THEN [console |-> <<<<"sent", <<>>>>>>,
          launched |-> <<[url |-> url, result |-> result]>>, raised |-> FALSE]
    ELSE [console |-> <<<<"error", <<>>>>>>,
          launched |-> <<[url |-> url, result |-> result]>>, raised |-> TRUE]

(***************************************************************************)
(* get_auth_token and the credential check of the mutating commands.       *)
(***************************************************************************)
\* os.environ.get("THINGS_TOKEN"): unset, set to the empty string, or set.
EnvTokens == {None, S(<<>>), S(<<"tok">>)}

\* get_auth_token() under environment value env: the token it returns and
\* the warning it prints when the token is missing or empty.
get_auth_token(env) ==
    [token |-> env,
     console |-> IF ~Truthy(env) THEN <<<<"warning", <<"THINGS_TOKEN">>>>>>
                 ELSE <<>>]

\* A mutant of auth_required: the dry run does not bypass the check.
auth_required_always(token, dry_run) == ~Truthy(token)

\* `if not auth_token and not dry_run`: the command must stop.
auth_required(token, dry_run) == ~Truthy(token) /\ ~dry_run

(***************************************************************************)
(* Command-line options.                                                   *)
(***************************************************************************)
\* The subsets of S of at most k elements.
RECURSIVE SubsetsUpTo(_, _)
SubsetsUpTo(set, k) ==
    IF k = 0 THEN {{}}
    ELSE LET smaller == SubsetsUpTo(set, k - 1)
         IN  smaller \cup {T \cup {x} : T \in smaller, x \in set}

\* bool flags (typer.Option(False, ...)).
FlagOpts == {"completed", "canceled", "reveal", "duplicate"}

\* The values an option can be given on the command line: two per option.
Choices == {1, 2}

StrChoice(c) == IF c = 1 THEN S(<<"a", ",", " ", "b", "&", "c">>) ELSE S(<<>>)

\* class When (a str Enum): the .value of two of its members.
WhenChoice(c) == IF c = 1 THEN S(<<"today">>) ELSE S(<<"someday">>)

\* class BuiltInList (a str Enum): the .value of two of its members.
BuiltInListChoice(c) == IF c = 1 THEN S(<<"inbox">>) ELSE S(<<"all-projects">>)

\* The value of option o of command cmd for choice c.
OptValue(cmd, o, c) ==
    IF o \in FlagOpts THEN B(TRUE)
    ELSE IF o = "when" THEN WhenChoice(c)
    ELSE IF cmd = "show" /\ o = "list_id" THEN BuiltInListChoice(c)
    ELSE StrChoice(c)

\* The default of an option that is not given.
OptDefault(o) == IF o \in FlagOpts THEN B(FALSE) ELSE None

\* The optional options of each command, by the handler's parameter names.
OptionalOpts(cmd) ==
    CASE cmd = "add" ->
           {"notes", "when", "when_date", "deadline", "tags", "checklist",
            "list_name", "list_id", "heading", "heading_id", "completed",
            "canceled", "reveal", "creation_date", "completion_date"}
      [] cmd = "add-project" ->
           {"notes", "when", "when_date", "deadline", "tags", "area",
            "area_id", "todos", "completed", "canceled", "reveal",
            "creation_date", "completion_date"}
      [] cmd = "update" ->
           {"title", "notes", "prepend_notes", "append_notes", "when",
            "when_date", "deadline", "tags", "add_tags", "checklist",
            "prepend_checklist", "append_checklist", "list_name", "list_id",
            "heading", "heading_id", "completed", "canceled", "duplicate",
            "reveal", "creation_date", "completion_date"}
      [] cmd = "update-project" ->
           {"title", "notes", "prepend_notes", "append_notes", "when",
            "when_date", "deadline", "tags", "add_tags", "area", "area_id",
            "completed", "canceled", "duplicate", "reveal", "creation_date",
            "completion_date"}
      [] cmd = "show" -> {"list_id", "custom_id", "query", "filter_tags"}
      [] cmd = "search" -> {"query"}
      [] cmd = "version" -> {}
      [] cmd = "json" -> {"reveal"}

\* The required options (typer.Option(..., ...)) of each command.
RequiredOpts(cmd) ==
    CASE cmd \in {"add", "add-project"} -> {"title"}
      [] cmd = "update" -> {"task_id"}
      [] cmd = "update-project" -> {"project_id"}
      [] OTHER -> {}

\* The option values a command line can give to cmd: every required option,
\* at most MaxOpts optional ones, each with its c-th value, and the
\* --dry-run flag.
ArgSets(cmd) ==
    UNION {
      { [o \in OptionalOpts(cmd) \cup RequiredOpts(cmd) \cup {"dry_run"} |->
            IF o = "dry_run" THEN B(d)
            ELSE IF o \in RequiredOpts(cmd) THEN S(<<"X1">>)
            ELSE IF o \in T THEN OptValue(cmd, o, c)
            ELSE OptDefault(o)]
        : c \in Choices, d \in BOOLEAN }
      : T \in SubsetsUpTo(OptionalOpts(cmd), MaxOpts) }

(***************************************************************************)
(* The Parameter Sets of the handlers.                                     *)
(***************************************************************************)
\* A mutant of flag_param: the flag is sent as it is.
flag_param_raw(flag) == flag

\* `flag if flag else None`.
flag_param(flag) == IF Truthy(flag) THEN flag ELSE None

\* `when.value if when else when_date`.
when_param(when, when_date) == IF Truthy(when) THEN when ELSE when_date

\* `"\n".join(split_items(x)) if x else None`.
items_param(x) == IF Truthy(x) THEN S(Join(NL, split_items(x).v)) ELSE None

add_params(a) ==
    << <<"title", a["title"]>>,
       <<"notes", a["notes"]>>,
       <<"when", when_param(a["when"], a["when_date"])>>,
       <<"deadline", a["deadline"]>>,
       <<"tags", a["tags"]>>,
       <<"checklist-items", items_param(a["checklist"])>>,
       <<"list", a["list_name"]>>,
       <<"list-id", a["list_id"]>>,
       <<"heading", a["heading"]>>,
       <<"heading-id", a["heading_id"]>>,
       <<"completed", flag_param(a["completed"])>>,
       <<"canceled", flag_param(a["canceled"])>>,
       <<"reveal", flag_param(a["reveal"])>>,
       <<"creation-date", a["creation_date"]>>,
       <<"completion-date", a["completion_date"]>> >>

add_project_params(a) ==
    << <<"title", a["title"]>>,
       <<"notes", a["notes"]>>,
       <<"when", when_param(a["when"], a["when_date"])>>,
       <<"deadline", a["deadline"]>>,
       <<"tags", a["tags"]>>,
       <<"area", a["area"]>>,
       <<"area-id", a["area_id"]>>,
       <<"to-dos", items_param(a["todos"])>>,
       <<"completed", flag_param(a["completed"])>>,
       <<"canceled", flag_param(a["canceled"])>>,
       <<"reveal", flag_param(a["reveal"])>>,
       <<"creation-date", a["creation_date"]>>,
       <<"completion-date", a["completion_date"]>> >>

update_params(a, token) ==
    << <<"id", a["task_id"]>>,
       <<"auth-token", token>>,
       <<"title", a["title"]>>,
       <<"notes", a["notes"]>>,
       <<"prepend-notes", a["prepend_notes"]>>,
       <<"append-notes", a["append_notes"]>>,
       <<"when", when_param(a["when"], a["when_date"])>>,
       <<"deadline", a["deadline"]>>,
       <<"tags", a["tags"]>>,
       <<"add-tags", a["add_tags"]>>,
       <<"checklist-items", items_param(a["checklist"])>>,
       <<"prepend-checklist-items", items_param(a["prepend_checklist"])>>,
       <<"append-checklist-items", items_param(a["append_checklist"])>>,
       <<"list", a["list_name"]>>,
       <<"list-id", a["list_id"]>>,
       <<"heading", a["heading"]>>,
       <<"heading-id", a["heading_id"]>>,
       <<"completed", flag_param(a["completed"])>>,
       <<"canceled", flag_param(a["canceled"])>>,
       <<"duplicate", flag_param(a["duplicate"])>>,
       <<"reveal", flag_param(a["reveal"])>>,
       <<"creation-date", a["creation_date"]>>,
       <<"completion-date", a["completion_date"]>> >>

update_project_params(a, token) ==
    << <<"id", a["project_id"]>>,
       <<"auth-token", token>>,
       <<"title", a["title"]>>,
       <<"notes", a["notes"]>>,
       <<"prepend-notes", a["prepend_notes"]>>,
       <<"append-notes", a["append_notes"]>>,
       <<"when", when_param(a["when"], a["when_date"])>>,
       <<"deadline", a["deadline"]>>,
       <<"tags", a["tags"]>>,
       <<"add-tags", a["add_tags"]>>,
       <<"area", a["area"]>>,
       <<"area-id", a["area_id"]>>,
       <<"completed", flag_param(a["completed"])>>,
       <<"canceled", flag_param(a["canceled"])>>,
       <<"duplicate", flag_param(a["duplicate"])>>,
       <<"reveal", flag_param(a["reveal"])>>,
       <<"creation-date", a["creation_date"]>>,
       <<"completion-date", a["completion_date"]>> >>

\* show: `item_id = list_id.value if list_id, elif custom_id: custom_id`.
show_item_id(list_id, custom_id) ==
    IF Truthy(list_id) THEN list_id
    ELSE IF Truthy(custom_id) THEN custom_id
    ELSE None

show_params(a) ==
    << <<"id", show_item_id(a["list_id"], a["custom_id"])>>,
       <<"query", a["query"]>>,
       <<"filter", a["filter_tags"]>> >>

search_params(a) == << <<"query", a["query"]>> >>

(***************************************************************************)
(* JSON: json.dumps and json.loads on token strings.                       *)
(***************************************************************************)
JStr(s) == [j |-> "str", v |-> s]
JLit(w) == [j |-> "lit", v |-> w]        \* a number, true, false or null
JList(items) == [j |-> "list", v |-> items]
JDict(members) == [j |-> "dict", v |-> members]   \* <<key, value>> pairs

\* The tokens json.loads reads as a number or a literal.
JsonLiterals == {"0", "7", "true", "false", "null"}

\* sep.join(parts) for a separator of several tokens (joined by halves).
RECURSIVE JoinSeq(_, _)
JoinSeq(sep, parts) ==
    IF parts = <<>> THEN <<>>
    ELSE IF Len(parts) = 1 THEN parts[1]
    ELSE LET h == Len(parts) \div 2
         IN  JoinSeq(sep, SubSeq(parts, 1, h)) \o sep
             \o JoinSeq(sep, SubSeq(parts, h + 1, Len(parts)))

\* json.dumps(v) with the default separators ", " and ": ".
RECURSIVE json_dumps(_)
json_dumps(v) ==
    CASE v.j = "str" -> <<"\"">> \o v.v \o <<"\"">>
      [] v.j = "lit" -> <<v.v>>
      [] v.j = "list" ->
           <<"[">> \o JoinSeq(<<",", " ">>,
                              [i \in 1..Len(v.v) |-> json_dumps(v.v[i])])
                   \o <<"]">>
      [] v.j = "dict" ->
           <<"{">> \o JoinSeq(<<",", " ">>,
                              [i \in 1..Len(v.v) |->
                                  <<"\"">> \o v.v[i][1] \o <<"\"", ":", " ">>
                                  \o json_dumps(v.v[i][2])])
                   \o <<"}">>

\* The first position at or after i that holds no JSON whitespace.
SkipWs(s, i) ==
    IF \E k \in i..Len(s) : s[k] \notin Whitespace
    THEN CHOOSE k \in i..Len(s) :
            s[k] \notin Whitespace /\ \A m \in i..(k - 1) : s[m] \in Whitespace
    ELSE Len(s) + 1

ParseFail == [ok |-> FALSE, value |-> JLit("null"), next |-> 0]
ParseOk(v, n) == [ok |-> TRUE, value |-> v, next |-> n]

\* A string literal opening at position i: up to the next quote, with no
\* control character inside.
ParseString(s, i) ==
    IF \E k \in (i + 1)..Len(s) : s[k] = "\""
    THEN LET k == CHOOSE k \in (i + 1)..Len(s) :
                     s[k] = "\"" /\ \A m \in (i + 1)..(k - 1) : s[m] # "\""
             body == SubSeq(s, i + 1, k - 1)
         IN  IF \E m \in 1..Len(body) : body[m] \in {NL, "\t"}
             THEN ParseFail
             ELSE ParseOk(JStr(body), k + 1)
    ELSE ParseFail

\* The elements of an array and the members of an object are parsed by
\* halves: Parse...(s, i, n) reads at most n of them from position i, and
\* says whether it met the closing bracket; ParseArray and ParseObject read
\* all of them, n and then twice as many at a time.
ItemsFail == [ok |-> FALSE, values |-> <<>>, next |-> 0, closed |-> FALSE]

RECURSIVE ParseValue(_, _), ParseElements(_, _, _), ParseMembers(_, _, _)
RECURSIVE ParseArray(_, _, _), ParseObject(_, _, _)
ParseValue(s, i0) ==
    LET Closed(r, mk(_)) ==
            IF r.ok /\ r.closed THEN ParseOk(mk(r.values), r.next)
            ELSE ParseFail
        At(i) ==
            IF i > Len(s) THEN ParseFail
            ELSE IF s[i] = "[" THEN
                LET k == SkipWs(s, i + 1)
                IN  IF k <= Len(s) /\ s[k] = "]" THEN ParseOk(JList(<<>>), k + 1)
                    ELSE Closed(ParseArray(s, i + 1, 1), JList)
            ELSE IF s[i] = "{" THEN
                LET k == SkipWs(s, i + 1)
                IN  IF k <= Len(s) /\ s[k] = "}" THEN ParseOk(JDict(<<>>), k + 1)
                    ELSE Closed(ParseObject(s, i + 1, 1), JDict)
            ELSE IF s[i] = "\"" THEN ParseString(s, i)
            ELSE IF s[i] \in JsonLiterals THEN ParseOk(JLit(s[i]), i + 1)
            ELSE ParseFail
    IN  At(SkipWs(s, i0))

ParseElements(s, i, n) ==
    LET One(r) ==
            LET k == SkipWs(s, r.next)
            IN  IF ~r.ok \/ k > Len(s) \/ s[k] \notin {",", "]"} THEN ItemsFail
                ELSE [ok |-> TRUE, values |-> <<r.value>>, next |-> k + 1,
                      closed |-> s[k] = "]"]
        Both(left, right) ==
            IF ~right.ok THEN ItemsFail
            ELSE [right EXCEPT !.values = left.values \o @]
        After(left) ==
            IF ~left.ok \/ left.closed THEN left
            ELSE Both(left, ParseElements(s, left.next, n - (n \div 2)))
    IN  IF n <= 1 THEN One(ParseValue(s, i))
        ELSE After(ParseElements(s, i, n \div 2))

ParseMembers(s, i0, n) ==
    LET Member(key, r) ==
            LET k == SkipWs(s, r.next)
            IN  IF ~r.ok \/ k > Len(s) \/ s[k] \notin {",", "}"} THEN ItemsFail
                ELSE [ok |-> TRUE, values |-> <<<<key.value.v, r.value>>>>,
                      next |-> k + 1, closed |-> s[k] = "}"]
        Keyed(key) ==
            LET c == SkipWs(s, key.next)
            IN  Member(key, IF key.ok /\ c <= Len(s) /\ s[c] = ":"
                            THEN ParseValue(s, c + 1)
                            ELSE ParseFail)
        One(i) ==
            Keyed(IF i <= Len(s) /\ s[i] = "\"" THEN ParseString(s, i)
                  ELSE ParseFail)
        Both(left, right) ==
            IF ~right.ok THEN ItemsFail
            ELSE [right EXCEPT !.values = left.values \o @]
        After(left) ==
            IF ~left.ok \/ left.closed THEN left
            ELSE Both(left, ParseMembers(s, left.next, n - (n \div 2)))
    IN  IF n <= 1 THEN One(SkipWs(s, i0))
        ELSE After(ParseMembers(s, i0, n \div 2))

ParseArray(s, i, n) ==
    LET Both(left, right) ==
            IF ~right.ok THEN ItemsFail
            ELSE [right EXCEPT !.values = left.values \o @]
        Rest(left) ==
            IF ~left.ok \/ left.closed THEN left
            ELSE Both(left, ParseArray(s, left.next, 2 * n))
    IN  Rest(ParseElements(s, i, n))

ParseObject(s, i, n) ==
    LET Both(left, right) ==
            IF ~right.ok THEN ItemsFail
            ELSE [right EXCEPT !.values = left.values \o @]
        Rest(left) ==
            IF ~left.ok \/ left.closed THEN left
            ELSE Both(left, ParseObject(s, left.next, 2 * n))
    IN  Rest(ParseMembers(s, i, n))

\* json.loads(s): the value, or ok = FALSE for json.JSONDecodeError.
json_loads(s) ==
    LET Whole(r) ==
            IF r.ok /\ SkipWs(s, r.next) > Len(s)
            THEN [ok |-> TRUE, value |-> r.value]
            ELSE [ok |-> FALSE, value |-> JLit("null")]
    IN  Whole(ParseValue(s, 1))

(***************************************************************************)
(* The command handlers.  Each returns what one run of the command leaves: *)
(* the token it read, the Parameter Set, the requests built, the calls of  *)
(* execute_url, the launches, the console output and the exit code.        *)
(***************************************************************************)
\* A run that stopped with typer.Exit(1) before any request was built.
Failed(token, out) ==
    [auth_token |-> token, params |-> <<>>, built |-> <<>>,
     dispatched |-> <<>>, launched |-> <<>>, console |-> out, exit_code |-> 1]

\* A mutant of send: the request is handed to execute_url twice.
send_twice(cmd, token, ps, dry_run, result, out) ==
    LET url == build_url(cmd, ps)
        ex == execute_url(url, dry_run, result)
    IN  [auth_token |-> token, params |-> ps, built |-> <<url>>,
         dispatched |-> <<[url |-> url, dry_run |-> dry_run],
                          [url |-> url, dry_run |-> dry_run]>>,
         launched |-> ex.launched \o ex.launched,
         console |-> out \o ex.console \o ex.console,
         exit_code |-> IF ex.raised THEN 1 ELSE 0]

\* The tail of every handler: `url = build_url(cmd, params)` and then
\* `execute_url(url, dry_run)`; `out` is what the handler printed before.
send(cmd, token, ps, dry_run, result, out) ==
    LET url == build_url(cmd, ps)
        ex == execute_url(url, dry_run, result)
    IN  [auth_token |-> token, params |-> ps, built |-> <<url>>,
         dispatched |-> <<[url |-> url, dry_run |-> dry_run]>>,
         launched |-> ex.launched,
         console |-> out \o ex.console,
         exit_code |-> IF ex.raised THEN 1 ELSE 0]

add(a, result) ==
    send("add", None, add_params(a), a["dry_run"].v, result, <<>>)

add_project(a, result) ==
    send("add-project", None, add_project_params(a), a["dry_run"].v, result,
         <<>>)

update(a, env, result) ==
    LET got == get_auth_token(env)
    IN  IF auth_required(got.token, a["dry_run"].v)
        THEN Failed(got.token,
                    got.console \o <<<<"error-auth", <<"update">>>>>>)
        ELSE send("update", got.token, update_params(a, got.token),
                  a["dry_run"].v, result, got.console)

update_project(a, env, result) ==
    LET got == get_auth_token(env)
    IN  IF auth_required(got.token, a["dry_run"].v)
        THEN Failed(got.token,
                    got.console \o <<<<"error-auth", <<"update-project">>>>>>)
        ELSE send("update-project", got.token,
                  update_project_params(a, got.token), a["dry_run"].v, result,
                  got.console)

show(a, result) ==
    send("show", None, show_params(a), a["dry_run"].v, result, <<>>)

search(a, result) ==
    send("search", None, search_params(a), a["dry_run"].v, result, <<>>)

\* version prints its note after execute_url returns, so not when it raised.
version(a, result) ==
    LET r == send("version", None, <<>>, a["dry_run"].v, result, <<>>)
    IN  IF r.exit_code = 0
        THEN [r EXCEPT !.console = @ \o <<<<"note", <<"version">>>>>>]
        ELSE r

(***************************************************************************)
(* json_command and import.                                                *)
(***************************************************************************)
\* `if len(json_data) > 250`.
MaxItems == 250

\* A mutant of too_many: the limit is off by one.
too_many_strict(n) == n >= MaxItems

\* The rate-limit check of json_command.
too_many(n) == n > MaxItems

\* isinstance(json_data, list).
is_list(v) == v.j = "list"

\* len(json_data) of a value that is a list (a dict here only in a mutant).
JLen(v) == Len(v.v)

\* The loading step of json_command: json.load of the file when a file is
\* named, else json.loads of --data, else an error.  `content` is what the
\* named file holds, or None when there is no such file.
load_json(a, content) ==
    LET Loaded(r, error) == [ok |-> r.ok, error |-> error, value |-> r.value]
    IN  IF Truthy(a["file"])
        THEN IF content.t = "none"
             THEN [ok |-> FALSE, error |-> "error-file-not-found",
                   value |-> JLit("null")]
             ELSE Loaded(json_loads(content.v), "error-json-file")
        ELSE IF Truthy(a["data"])
        THEN Loaded(json_loads(a["data"].v), "error-json-data")
        ELSE [ok |-> FALSE, error |-> "error-no-input",
              value |-> JLit("null")]

json_params(json_data, token, a) ==
    << <<"data", S(json_dumps(json_data))>>,
       <<"auth-token", token>>,
       <<"reveal", flag_param(a["reveal"])>> >>

json_command(a, env, content, result) ==
    LET Checked(got, loaded) ==
            IF auth_required(got.token, a["dry_run"].v)
            THEN Failed(got.token,
                        got.console \o <<<<"error-auth", <<"json">>>>>>)
            ELSE IF ~loaded.ok
            THEN Failed(got.token, got.console \o <<<<loaded.error, <<>>>>>>)
            ELSE IF ~is_list(loaded.value)
            THEN Failed(got.token,
                        got.console \o <<<<"error-not-array", <<>>>>>>)
            ELSE IF too_many(JLen(loaded.value))
            THEN Failed(got.token,
                        got.console \o <<<<"error-too-many", <<>>>>>>)
            ELSE send("json", got.token,
                      json_params(loaded.value, got.token, a),
                      a["dry_run"].v, result, got.console)
    IN  Checked(get_auth_token(env), load_json(a, content))

\* import: json_command(data=None, file=file, reveal=reveal, dry_run=dry_run).
import_json(a, env, content, result) ==
    json_command([a EXCEPT !["data"] = None], env, content, result)

\* The JSON payloads of the model: lists around the limit, values that are
\* not lists, and texts that do not parse.
Todo(title) ==
    JDict(<< <<<<"type">>, JStr(<<"to-do">>)>>,
             <<<<"attributes">>, JDict(<< <<<<"title">>, JStr(title)>> >>)>> >>)

Records(n) == JList([i \in 1..n |-> JDict(<<>>)])

ListLengths == {0, 1, MaxItems - 1, MaxItems, MaxItems + 1, MaxItems + 2}

PayloadTexts ==
    {json_dumps(Records(n)) : n \in ListLengths}
    \cup {json_dumps(JList(<<Todo(<<"Buy", " ", "milk">>), Todo(<<"B">>)>>)),
          json_dumps(Todo(<<"A">>)),
          json_dumps(JDict(<<>>)),
          json_dumps(JLit("7")),
          <<"[", "{", "}">>,
          <<"[", "{", "}", ",", "]">>,
          <<"not", " ", "json">>,
          <<" ">>}

\* The option values of json: --data, --file, --reveal, --dry-run.  With a
\* file named, --data is not read, so two values of it are enough there.
JsonArgSets ==
    { [o \in {"data", "file", "reveal", "dry_run"} |->
          CASE o = "data" -> df[1]
            [] o = "file" -> df[2]
            [] o = "reveal" -> B(r)
            [] o = "dry_run" -> B(dr)]
      : df \in (({None, S(<<>>)} \cup {S(t) : t \in PayloadTexts})
                    \X {None, S(<<>>)})
               \cup ({None, S(<<"[", "]">>)} \X {S(<<"in.json">>)}),
        r \in BOOLEAN, dr \in BOOLEAN }

\* The option values of import: the file argument, --reveal, --dry-run.
ImportArgSets ==
    { [o \in {"data", "file", "reveal", "dry_run"} |->
          CASE o = "data" -> None
            [] o = "file" -> f
            [] o = "reveal" -> B(r)
            [] o = "dry_run" -> B(dr)]
      : f \in {S(<<>>), S(<<"in.json">>)}, r \in BOOLEAN, dr \in BOOLEAN }

\* What the named file can hold: nothing (no such file) or a text.
FileContents == {None, S(<<>>)} \cup {S(t) : t \in PayloadTexts}

(***************************************************************************)
(* One run of the command line.                                            *)
(***************************************************************************)
NoCall == [fn |-> "none"]

Idle ==
    /\ pc = "idle"
    /\ command = "none"
    /\ args = <<>>
    /\ auth_token = None
    /\ params = <<>>
    /\ built = <<>>
    /\ dispatched = <<>>
    /\ launched = <<>>
    /\ console = <<>>
    /\ exit_code = -1
    /\ osascript = <<>>
    /\ written = <<>>

Init == Idle /\ call = NoCall

\* The handler of cmd ran on option values a and left r.
Ran(cmd, a, r) ==
    /\ pc' = "done"
    /\ command' = cmd
    /\ args' = a
    /\ auth_token' = r.auth_token
    /\ params' = r.params
    /\ built' = r.built
    /\ dispatched' = r.dispatched
    /\ launched' = r.launched
    /\ console' = r.console
    /\ exit_code' = r.exit_code
    /\ UNCHANGED <<osascript, written, call>>

\* The results of launching `open` that a run can meet: none matters to a
\* dry run, which launches nothing.
OpenResultsFor(a) == IF a["dry_run"].v THEN {"zero"} ELSE OpenResults

\* The contents the file named by --file can have; no file is read when
\* none is named.
FileContentsFor(a) == IF Truthy(a["file"]) THEN FileContents ELSE {None}

Add ==
    /\ pc = "idle"
    /\ \E a \in ArgSets("add") : \E result \in OpenResultsFor(a) :
            \E r \in {add(a, result)} : Ran("add", a, r)

AddProject ==
    /\ pc = "idle"
    /\ \E a \in ArgSets("add-project") : \E result \in OpenResultsFor(a) :
            \E r \in {add_project(a, result)} : Ran("add-project", a, r)

Update ==
    /\ pc = "idle"
    /\ \E a \in ArgSets("update"), env \in EnvTokens :
            \E result \in OpenResultsFor(a) :
                \E r \in {update(a, env, result)} : Ran("update", a, r)

UpdateProject ==
    /\ pc = "idle"
    /\ \E a \in ArgSets("update-project"), env \in EnvTokens :
            \E result \in OpenResultsFor(a) :
                \E r \in {update_project(a, env, result)} :
                    Ran("update-project", a, r)

Show ==
    /\ pc = "idle"
    /\ \E a \in ArgSets("show") : \E result \in OpenResultsFor(a) :
            \E r \in {show(a, result)} : Ran("show", a, r)

Search ==
    /\ pc = "idle"
    /\ \E a \in ArgSets("search") : \E result \in OpenResultsFor(a) :
            \E r \in {search(a, result)} : Ran("search", a, r)

Version ==
    /\ pc = "idle"
    /\ \E a \in ArgSets("version") : \E result \in OpenResultsFor(a) :
            \E r \in {version(a, result)} : Ran("version", a, r)

\* The state keeps the content of the named file beside the options.
JsonCommand ==
    /\ pc = "idle"
    /\ \E a \in JsonArgSets, env \in EnvTokens :
            \E content \in FileContentsFor(a), result \in OpenResultsFor(a) :
                \E r \in {json_command(a, env, content, result)} :
                    Ran("json", [a EXCEPT !["file"] =
                                    [t |-> @.t, name |-> @, content |-> content]],
                        r)

ImportJson ==
    /\ pc = "idle"
    /\ \E a \in ImportArgSets, env \in EnvTokens :
            \E content \in FileContentsFor(a), result \in OpenResultsFor(a) :
                \E r \in {import_json(a, env, content, result)} :
                    Ran("import", [a EXCEPT !["file"] =
                                      [t |-> @.t, name |-> @, content |-> content]],
                        r)


(***************************************************************************)
(* Reading a request string back: the query string split at & and =.       *)
(***************************************************************************)
\* The query string of a request: what follows "things:///", command, "?".
QueryOf(url) == IF Len(url) > 3 THEN SubSeq(url, 4, Len(url)) ELSE <<>>

\* The key=value pieces of a request, each as <<key, value>> token strings;
\* value is everything after the first "=" of the piece.
QueryPairs(url) ==
    IF Len(url) <= 2 THEN <<>>
    ELSE LET pieces == SplitOn(QueryOf(url), "&")
         IN  [i \in 1..Len(pieces) |->
                LET k == FirstIndex(pieces[i], "=")
                IN  IF k = 0 THEN <<pieces[i], <<>>>>
                    ELSE <<SubSeq(pieces[i], 1, k - 1),
                           SubSeq(pieces[i], k + 1, Len(pieces[i]))>>]

QueryKeys(url) == [i \in 1..Len(QueryPairs(url)) |-> QueryPairs(url)[i][1]]

HasKey(url, key) == \E i \in 1..Len(QueryKeys(url)) : QueryKeys(url)[i] = <<key>>

\* The console shows an entry of this kind.
Printed(kind) == \E i \in 1..Len(console) : console[i][1] = kind

Done == pc = "done"
DryRun == args["dry_run"].v
MutatingCommands == {"update", "update-project", "json", "import"}
BatchCommands == {"json", "import"}

\* The commands that build a request; list and export build none.
RequestCommands ==
    {"add", "add-project", "update", "update-project", "show", "search",
     "version", "json", "import"}

\* The payload a batch submission reads: the named file's content when a
\* file is named (None when there is no such file), else the --data text.
Payload ==
    IF args["file"].t = "str" /\ args["file"].name.v # <<>>
    THEN args["file"].content
    ELSE args["data"]

\* The payload parses, is a sequence, and has at most 250 elements.
PayloadValid ==
    /\ Payload.t = "str"
    /\ json_loads(Payload.v).ok
    /\ json_loads(Payload.v).value.j = "list"
    /\ Len(json_loads(Payload.v).value.v) <= 250

NothingSent == built = <<>> /\ dispatched = <<>> /\ launched = <<>>

(***************************************************************************)
(* C1 as stated: a mutating command without a credential fails with the    *)
(* authentication error and exit code 1 and builds nothing when it is not  *)
(* a dry run; every dry run of a mutating command builds and prints its    *)
(* request.  The second half fails for json and import, which validate the *)
(* payload after the bypassed check.                                       *)
(***************************************************************************)
C1_AsStated ==
    (Done /\ command \in MutatingCommands) =>
        /\ (~Truthy(auth_token) /\ ~DryRun) =>
              Printed("error-auth") /\ exit_code = 1 /\ NothingSent
        /\ DryRun =>
              /\ Len(built) = 1
              /\ \E i \in 1..Len(console) :
                    console[i] = <<"would-execute", built[1]>>

(***************************************************************************)
(* C1 amended: without a credential and without dry_run the command fails  *)
(* with the authentication error and exit code 1 and builds nothing; a dry *)
(* run never reports the authentication error, update and update-project   *)
(* then build and print their request, and json and import do so exactly   *)
(* when the payload is valid, whether or not the credential is available.  *)
(***************************************************************************)
C1_AuthCheck ==
    (Done /\ command \in MutatingCommands) =>
        /\ (~Truthy(auth_token) /\ ~DryRun) =>
              Printed("error-auth") /\ exit_code = 1 /\ NothingSent
        /\ DryRun =>
              /\ ~Printed("error-auth")
              /\ (command \in BatchCommands => PayloadValid) =>
                    /\ Len(built) = 1
                    /\ \E i \in 1..Len(console) :
                          console[i] = <<"would-execute", built[1]>>
                    /\ exit_code = 0
              /\ (command \in BatchCommands /\ ~PayloadValid) =>
                    NothingSent /\ exit_code = 1

\* A dry run of json without a credential that built its request.
C1_Witness ==
    /\ Done /\ command = "json" /\ DryRun /\ auth_token = None
    /\ Len(built) = 1 /\ Printed("would-execute")

(***************************************************************************)
(* C2: a batch submission that passes the credential check fails with exit *)
(* code 1, nothing built or dispatched, when the payload does not parse,   *)
(* is not a sequence or has more than 250 elements; a sequence of at most  *)
(* 250 elements has its request built.                                     *)
(***************************************************************************)
PassedCredentialCheck == Truthy(auth_token) \/ DryRun

C2_BatchValidation ==
    (Done /\ command \in BatchCommands /\ PassedCredentialCheck) =>
        /\ ~PayloadValid => exit_code = 1 /\ NothingSent
        /\ PayloadValid => Len(built) = 1 /\ Len(dispatched) = 1

\* A payload of exactly 250 elements whose request was built.
C2_Witness ==
    /\ Done /\ command = "import" /\ PassedCredentialCheck
    /\ Payload.t = "str" /\ json_loads(Payload.v).ok
    /\ json_loads(Payload.v).value.j = "list"
    /\ Len(json_loads(Payload.v).value.v) = 250
    /\ Len(built) = 1

(***************************************************************************)
(* C3: a dispatch with dry_run true prints the request string, launches    *)
(* nothing and ends the command with exit code 0.                          *)
(***************************************************************************)
C3_DryRunDispatch ==
    \A i \in 1..Len(dispatched) :
        dispatched[i].dry_run =>
            /\ \E k \in 1..Len(console) :
                  console[k] = <<"would-execute", dispatched[i].url>>
            /\ launched = <<>>
            /\ exit_code = 0

\* A dry run of add that printed a request with a query string.
C3_Witness ==
    /\ Done /\ command = "add" /\ Len(dispatched) = 1
    /\ dispatched[1].dry_run /\ Len(dispatched[1].url) > 3
    /\ Printed("would-execute")

(***************************************************************************)
(* C4: a live dispatch launches the open handler exactly once, with the    *)
(* built request; the command exits 0 exactly when that launch exits with  *)
(* status zero, and 1 on a nonzero status or a missing handler.            *)
(***************************************************************************)
C4_LiveDispatch ==
    \A i \in 1..Len(dispatched) :
        ~dispatched[i].dry_run =>
            /\ Len(launched) = 1
            /\ launched[1].url = dispatched[i].url
            /\ launched[1].url = built[1]
            /\ (exit_code = 0) <=> (launched[1].result = "zero")
            /\ launched[1].result \in {"nonzero", "missing"} => exit_code = 1
            /\ Printed("sent") <=> (launched[1].result = "zero")

\* A live update whose launch found no open handler.
C4_Witness ==
    /\ Done /\ command = "update" /\ Len(dispatched) = 1
    /\ ~dispatched[1].dry_run
    /\ Len(launched) = 1 /\ launched[1].result = "missing" /\ exit_code = 1

(***************************************************************************)
(* C5: a run hands its built request to execute_url exactly once, and      *)
(* unchanged, when the credential check and the validations pass, and      *)
(* hands over nothing when one of them fails.                              *)
(***************************************************************************)
ChecksPass ==
    /\ command \in MutatingCommands => PassedCredentialCheck
    /\ command \in BatchCommands => PayloadValid

C5_DispatchedOnce ==
    Done =>
        /\ (command \in RequestCommands /\ ChecksPass) =>
              /\ Len(built) = 1
              /\ Len(dispatched) = 1
              /\ dispatched[1].url = built[1]
              /\ dispatched[1].dry_run = DryRun
              /\ \A i \in 1..Len(launched) : launched[i].url = built[1]
        /\ (command \notin RequestCommands \/ ~ChecksPass) =>
              dispatched = <<>> /\ launched = <<>>

\* A live json submission, and so a request of a payload, dispatched once.
C5_Witness ==
    /\ Done /\ command = "json" /\ ~DryRun /\ ChecksPass
    /\ Len(dispatched) = 1 /\ Len(launched) = 1

(***************************************************************************)
(* C6: in every built request, a parameter whose value is None is no key   *)
(* of the query string, and a completed, canceled or reveal flag that is   *)
(* false is no key either: such a key only ever carries the value true.    *)
(***************************************************************************)
SentFlags == {"completed", "canceled", "reveal"}

C6_AbsentNotSent ==
    \A b \in 1..Len(built) :
        LET pairs == QueryPairs(built[b])
            keys == {pairs[k][1] : k \in 1..Len(pairs)}
        IN  /\ \A i \in 1..Len(params) :
                  params[i][2] = None => <<params[i][1]>> \notin keys
            /\ \A f \in SentFlags \cap DOMAIN args :
                  ~args[f].v => <<f>> \notin keys
            /\ \A k \in 1..Len(pairs) :
                  pairs[k][1][1] \in SentFlags => pairs[k][2] = <<"true">>

\* An add with --reveal and nothing else: reveal=true is sent, notes and the
\* false completed flag are not.
C6_Witness ==
    /\ Done /\ command = "add" /\ Len(built) = 1
    /\ args["reveal"].v /\ ~args["completed"].v /\ args["notes"] = None
    /\ HasKey(built[1], "reveal") /\ ~HasKey(built[1], "completed")
    /\ QueryKeys(built[1]) = << <<"title">>, <<"reveal">> >>

(***************************************************************************)
(* Direct calls of the helper functions: the argument is drawn in the      *)
(* initial state and one action applies the function.                      *)
(***************************************************************************)
\* The strings of at most n tokens over an alphabet.
RECURSIVE Strings(_, _)
Strings(alphabet, n) ==
    IF n = 0 THEN {<<>>}
    ELSE LET shorter == Strings(alphabet, n - 1)
         IN  shorter \cup {Append(t, c) : t \in shorter, c \in alphabet}

\* The sequences of at most n elements of a set.
RECURSIVE SeqsUpTo(_, _)
SeqsUpTo(set, n) ==
    IF n = 0 THEN {<<>>}
    ELSE LET shorter == SeqsUpTo(set, n - 1)
         IN  shorter \cup {Append(t, x) : t \in shorter, x \in set}

Pending == [t |-> "pending"]

Called(fn) == call.fn = fn /\ call.done

\* --- split_items ---
SplitAlphabet == {"a", "b", " ", ",", NL}

\* "a, b,c\nd"
SplitExample == <<"a", ",", " ", "b", ",", "c", NL, "d">>

\* The handlers call split_items only on a non-empty option value
\* (`... if checklist else None`).
SplitInputs == (Strings(SplitAlphabet, MaxLen) \cup {SplitExample}) \ {<<>>}

InitSplit ==
    /\ Idle
    /\ \E s \in SplitInputs :
          call = [fn |-> "split_items", arg |-> S(s), ret |-> Pending,
                  done |-> FALSE]

CallSplitItems ==
    /\ call.fn = "split_items" /\ ~call.done
    /\ call' = [call EXCEPT !.ret = split_items(call.arg), !.done = TRUE]
    /\ UNCHANGED <<pc, command, args, auth_token, params, built, dispatched,
                   launched, console, exit_code, osascript, written>>

SpecSplit == InitSplit /\ [][CallSplitItems]_vars

\* --- build_url ---
UrlAlphabet == {"a", " ", "+", "&", "=", "/", "?", "#", "%", NL}

ListElements == {<<>>, <<"a">>, <<"b", " ", "c">>}

\* Every value of a Parameter Set entry within the bounds.
UrlValues ==
    {None, B(TRUE), B(FALSE)}
    \cup {S(t) : t \in Strings(UrlAlphabet, MaxStrLen)}
    \cup {L(l) : l \in SeqsUpTo(ListElements, MaxListLen)}

\* A sample of them, one or two of each type.
UrlValueSample ==
    {None, B(TRUE), B(FALSE), S(<<>>), S(<<"x", " ", "y">>),
     L(<<<<"p">>, <<"q", "&", "r">>>>)}

UrlKeys == <<"title", "tags", "reveal", "notes", "list">>

\* Parameter Sets of at most MaxParams entries (at most Len(UrlKeys)): the
\* first entry has any value, the others a value of the sample.
UrlParamSets ==
    {<<>>} \cup
    { [i \in 1..(1 + Len(rest)) |->
          <<UrlKeys[i], IF i = 1 THEN v ELSE rest[i - 1]>>]
      : v \in UrlValues, rest \in SeqsUpTo(UrlValueSample, MaxParams - 1) }

InitUrl ==
    /\ Idle
    /\ \E ps \in UrlParamSets :
          call = [fn |-> "build_url", arg |-> [command |-> "add", params |-> ps],
                  ret |-> Pending, done |-> FALSE]

CallBuildUrl ==
    /\ call.fn = "build_url" /\ ~call.done
    /\ call' = [call EXCEPT
                  !.ret = S(build_url(call.arg.command, call.arg.params)),
                  !.done = TRUE]
    /\ UNCHANGED <<pc, command, args, auth_token, params, built, dispatched,
                   launched, console, exit_code, osascript, written>>

SpecUrl == InitUrl /\ [][CallBuildUrl]_vars

(***************************************************************************)
(* What the claims about the helper functions compare the code with.       *)
(***************************************************************************)
IsDelimiter(c) == c \in {",", NL}

\* The k-th smallest element of a set of numbers.
Nth(set, k) == CHOOSE i \in set : Cardinality({j \in set : j < i}) = k - 1

\* The trimmed non-empty items of s in their order: for each maximal run of
\* tokens without a comma or line break that holds a token other than
\* whitespace, the tokens from its first to its last such token.
TrimmedItems(s) ==
    LET starts == {i \in 1..Len(s) :
                      /\ s[i] \notin Whitespace /\ ~IsDelimiter(s[i])
                      /\ \A j \in 1..(i - 1) :
                            (\A m \in j..(i - 1) : ~IsDelimiter(s[m]))
                                => s[j] \in Whitespace}
        EndOf(i) == CHOOSE e \in i..Len(s) :
                      /\ s[e] \notin Whitespace
                      /\ \A m \in i..e : ~IsDelimiter(s[m])
                      /\ \A j \in (e + 1)..Len(s) :
                            (\A m \in e..j : ~IsDelimiter(s[m]))
                                => s[j] \in Whitespace
    IN  [k \in 1..Cardinality(starts) |->
            SubSeq(s, Nth(starts, k), EndOf(Nth(starts, k)))]

\* urllib.parse.unquote of a query-string token.
UnquoteTok(t) ==
    IF \E c \in EscapedChars : PercentEscape(c) = t
    THEN CHOOSE c \in EscapedChars : PercentEscape(c) = t
    ELSE t

Unquote(s) == [i \in 1..Len(s) |-> UnquoteTok(s[i])]

\* The encoding by type that the Parameter Set invariant asks for.
ExpectedEncoding(value) ==
    CASE value.t = "bool" -> IF value.v THEN <<"true">> ELSE <<"false">>
      [] value.t = "list" -> Join(NL, value.v)
      [] value.t = "str" -> value.v

\* The entries of a Parameter Set whose value is not absent.
Present(ps) == SelectSeq(ps, LAMBDA p : p[2].t # "none")

\* The characters a query string reserves, and the other characters that no
\* URL carries unescaped.
ReservedChars == {"/", "?", "&", "=", "+", "#", ":", ",", "%", " ", NL, "\t"}

IsPercentEscape(t) == \E c \in EscapedChars : PercentEscape(c) = t

Count(s, t) == Cardinality({i \in 1..Len(s) : s[i] = t})

(***************************************************************************)
(* C7: build_url encodes each non-absent value by its type before it       *)
(* percent-encodes it (a boolean as true or false, a list as its elements  *)
(* joined by line breaks in order, a string as itself), and the keys of    *)
(* the query string are the non-absent parameter names in their order.     *)
(***************************************************************************)
C7_EncodingByType ==
    Called("build_url") =>
        LET present == Present(call.arg.params)
            pairs == QueryPairs(call.ret.v)
        IN  /\ Len(pairs) = Len(present)
            /\ \A k \in 1..Len(present) :
                  /\ pairs[k][1] = <<present[k][1]>>
                  /\ Unquote(pairs[k][2]) = ExpectedEncoding(present[k][2])
            /\ (present = <<>>) <=> (call.ret.v = <<"things:///", "add">>)

\* A request of a list and a boolean behind it, in that order.
C7_Witness ==
    /\ Called("build_url")
    /\ Len(call.arg.params) = 2
    /\ call.arg.params[1][2] = L(<<<<"a">>, <<"b", " ", "c">>>>)
    /\ call.arg.params[2][2] = B(TRUE)
    /\ call.ret.v = <<"things:///", "add", "?", "title", "=", "a", "%0A", "b",
                      "%20", "c", "&", "tags", "=", "true">>

(***************************************************************************)
(* C8 as stated: split_items yields the trimmed non-empty items of its     *)
(* input in their order, and splitting the result joined by line breaks    *)
(* yields the same sequence, also for an input of delimiters and           *)
(* whitespace only.                                                        *)
(***************************************************************************)
C8_SplitIdempotent ==
    Called("split_items") =>
        /\ call.ret = L(TrimmedItems(call.arg.v))
        /\ split_items(S(Join(NL, call.ret.v))) = call.ret

\* C8, the part the code keeps: the items are the trimmed non-empty ones in
\* order, and the second split changes nothing when there is an item.
C8_ItemsInOrder ==
    Called("split_items") =>
        /\ call.ret = L(TrimmedItems(call.arg.v))
        /\ call.ret.v # <<>> =>
              split_items(S(Join(NL, call.ret.v))) = call.ret
        /\ call.arg.v = SplitExample =>
              call.ret.v = <<<<"a">>, <<"b">>, <<"c">>, <<"d">>>>

(***************************************************************************)
(* C9: in the query string every space of a parameter value is %20, never  *)
(* +, and no reserved character of a value stands unescaped: the only & and*)
(* = are those between and inside the key=value pairs.                     *)
(***************************************************************************)
C9_PercentEncoding ==
    Called("build_url") =>
        LET present == Present(call.arg.params)
            query == QueryOf(call.ret.v)
            pairs == QueryPairs(call.ret.v)
        IN  /\ Count(query, "+") = 0 /\ Count(query, " ") = 0
            /\ \A i \in 1..Len(query) :
                  query[i] \in ReservedChars => query[i] \in {"&", "="}
            /\ Count(query, "=") = Len(present)
            /\ present # <<>> => Count(query, "&") = Len(present) - 1
            /\ Len(pairs) = Len(present)
            /\ \A k \in 1..Len(present) :
                  LET plain == ExpectedEncoding(present[k][2])
                      sent == pairs[k][2]
                  IN  /\ Len(sent) = Len(plain)
                      /\ \A i \in 1..Len(plain) :
                            /\ plain[i] = " " => sent[i] = "%20"
                            /\ plain[i] \in ReservedChars =>
                                  IsPercentEscape(sent[i])
                            /\ plain[i] \notin ReservedChars =>
                                  sent[i] = plain[i]

\* A value of a space and a plus sign, sent as %20 and %2B.
C9_Witness ==
    /\ Called("build_url")
    /\ Len(call.arg.params) = 2
    /\ call.arg.params[1][2] = S(<<" ", "+">>)
    /\ call.arg.params[2][2] = S(<<"x", " ", "y">>)
    /\ call.ret.v = <<"things:///", "add", "?", "title", "=", "%20", "%2B",
                      "&", "tags", "=", "x", "%20", "y">>

(***************************************************************************)
(* things_jxa: run_jxa and detect_list_names.                              *)
(***************************************************************************)
LOCALE_MAPPINGS ==
    [de |-> [inbox |-> S(<<"Eingang">>), today |-> S(<<"Heute">>),
             tomorrow |-> S(<<"Morgen">>), anytime |-> S(<<"Jederzeit">>),
             upcoming |-> S(<<"Geplant">>), someday |-> S(<<"Irgendwann">>),
             logbook |-> S(<<"Logbuch">>)],
     en |-> [inbox |-> S(<<"Inbox">>), today |-> S(<<"Today">>),
             tomorrow |-> S(<<"Tomorrow">>), anytime |-> S(<<"Anytime">>),
             upcoming |-> S(<<"Upcoming">>), someday |-> S(<<"Someday">>),
             logbook |-> S(<<"Logbook">>)]]

\* `sub in s` for a one-token sub.
Contains(s, sub) == \E i \in 1..Len(s) : s[i] = sub

\* A mutant of run_jxa: subprocess.TimeoutExpired is not translated.
run_jxa_timeout_unhandled(script, reply) ==
    CASE reply.kind = "timeout" ->
           [raised |-> TRUE, error |-> <<"TimeoutExpired">>, out |-> <<>>]
      [] reply.kind = "missing" ->
           [raised |-> TRUE, error |-> <<"osascript-not-found">>, out |-> <<>>]
      [] reply.kind = "exit" ->
           IF reply.code # 0
           THEN IF Contains(Strip(reply.stderr), "Things3")
                   \/ Contains(Strip(reply.stderr), "Application")
                THEN [raised |-> TRUE, error |-> <<"could-not-connect">>,
                      out |-> <<>>]
                ELSE [raised |-> TRUE,
                      error |-> <<"script-failed">> \o Strip(reply.stderr),
                      out |-> <<>>]
           ELSE [raised |-> FALSE, error |-> <<>>, out |-> Strip(reply.stdout)]

\* A mutant of run_jxa: the error text of a nonzero exit is not inspected.
run_jxa_uninspected(script, reply) ==
    CASE reply.kind = "timeout" ->
           [raised |-> TRUE, error |-> <<"timed-out">>, out |-> <<>>]
      [] reply.kind = "missing" ->
           [raised |-> TRUE, error |-> <<"osascript-not-found">>, out |-> <<>>]
      [] reply.kind = "exit" ->
           IF reply.code # 0
           THEN [raised |-> TRUE,
                 error |-> <<"script-failed">> \o Strip(reply.stderr),
                 out |-> <<>>]
           ELSE [raised |-> FALSE, error |-> <<>>, out |-> Strip(reply.stdout)]

\* run_jxa(script) when osascript answers with `reply`: a timeout, a missing
\* interpreter, or an exit with a status, stdout and stderr.  It returns the
\* stripped stdout or raises a RuntimeError.
run_jxa(script, reply) ==
    CASE reply.kind = "timeout" ->
           [raised |-> TRUE, error |-> <<"timed-out">>, out |-> <<>>]
      [] reply.kind = "missing" ->
           [raised |-> TRUE, error |-> <<"osascript-not-found">>, out |-> <<>>]
      [] reply.kind = "exit" ->
           IF reply.code # 0
           THEN LET error_msg == Strip(reply.stderr)
                IN  IF Contains(error_msg, "Things3")
                       \/ Contains(error_msg, "Application")
                    THEN [raised |-> TRUE, error |-> <<"could-not-connect">>,
                          out |-> <<>>]
                    ELSE [raised |-> TRUE,
                          error |-> <<"script-failed">> \o error_msg,
                          out |-> <<>>]
           ELSE [raised |-> FALSE, error |-> <<>>, out |-> Strip(reply.stdout)]

\* A mutant of english_keys: the order of the keys of LOCALE_MAPPINGS.
english_keys_table_order ==
    <<"inbox", "today", "anytime", "upcoming", "someday", "logbook">>

\* english_keys of detect_list_names.
english_keys ==
    <<"inbox", "today", "upcoming", "anytime", "someday", "logbook">>

\* known_tomorrow.items(), in order.
known_tomorrow == << <<"de", S(<<"Morgen">>)>>, <<"en", S(<<"Tomorrow">>)>> >>

\* A parsed JSON value as the Python value json.loads gives: a string is a
\* str, anything else is kept as it is.
FromJson(e) == IF e.j = "str" THEN S(e.v) ELSE [t |-> "json", v |-> e]

\* len(x) of a parsed JSON value raises TypeError for a number, a boolean
\* or null.
HasLen(x) == x.j \in {"list", "str", "dict"}

\* x[i] for i < len(x) raises KeyError for a dict (its keys are strings).
CanIndex(x) == x.j \in {"list", "str"}

\* x[i], counted from 1: an element of a list, a character of a string (a
\* string reply is held character by character).
ItemAt(x, i) == IF x.j = "list" THEN FromJson(x.v[i]) ELSE S(<<x.v[i]>>)

\* The Tomorrow label: that of the first locale of known_tomorrow whose
\* Inbox label is first_list, else "Morgen".
tomorrow_label(first_list) ==
    LET hits == {k \in 1..Len(known_tomorrow) :
                    /\ known_tomorrow[k][1] \in DOMAIN LOCALE_MAPPINGS
                    /\ first_list.t = "str"
                    /\ first_list.v =
                          LOCALE_MAPPINGS[known_tomorrow[k][1]]["inbox"].v}
    IN  IF hits # {}
        THEN LOCALE_MAPPINGS[known_tomorrow[Nth(hits, 1)][1]]["tomorrow"]
        ELSE S(<<"Morgen">>)

\* The script of detect_list_names.
DetectScript == <<"JSON.stringify(lists.map(name))">>

\* detect_list_names() when osascript answers with `reply`: the mapping it
\* returns, the warning it prints, and the scripts it ran.
detect_list_names(reply) ==
    LET fallback(why) ==
            [value |-> LOCALE_MAPPINGS["de"],
             console |-> <<<<"warning", <<"locale-fallback">> \o why>>>>,
             scripts |-> <<DetectScript>>]
        Mapped(detected) ==
            [value |-> [k \in DOMAIN detected \cup {"tomorrow"} |->
                           IF k = "tomorrow" /\ k \notin DOMAIN detected
                           THEN tomorrow_label(IF "inbox" \in DOMAIN detected
                                               THEN detected["inbox"]
                                               ELSE S(<<>>))
                           ELSE detected[k]],
             console |-> <<>>,
             scripts |-> <<DetectScript>>]
        Zipped(list_names, count) ==
            IF count > 0 /\ ~CanIndex(list_names)
            THEN fallback(<<"KeyError">>)
            ELSE Mapped([k \in {english_keys[i] : i \in 1..count} |->
                            ItemAt(list_names,
                                   CHOOSE i \in 1..count :
                                      english_keys[i] = k)])
        Named(list_names) ==
            IF ~HasLen(list_names) THEN fallback(<<"TypeError">>)
            ELSE Zipped(list_names,
                        IF Len(list_names.v) < Len(english_keys)
                        THEN Len(list_names.v) ELSE Len(english_keys))
        Parsed(parsed) ==
            IF ~parsed.ok THEN fallback(<<"JSONDecodeError">>)
            ELSE Named(parsed.value)
        Returned(ran) ==
            IF ran.raised THEN fallback(ran.error)
            ELSE Parsed(json_loads(ran.out))
    IN  Returned(run_jxa(DetectScript, reply))

\* --- the replies of the host application ---
\* The names the host can hold at a position of its list of lists: the
\* German or English label, a third label for the Inbox, and user lists
\* behind the six built-in ones.
NameChoices(i) ==
    CASE i = 1 -> {"Eingang", "Inbox", "Reception"}
      [] i = 2 -> {"Heute", "Today"}
      [] i = 3 -> {"Geplant", "Upcoming"}
      [] i = 4 -> {"Jederzeit", "Anytime"}
      [] i = 5 -> {"Irgendwann", "Someday"}
      [] i = 6 -> {"Logbuch", "Logbook"}
      [] OTHER -> {"Work"}

RECURSIVE NameLists(_)
NameLists(n) ==
    IF n = 0 THEN {<<>>}
    ELSE LET shorter == NameLists(n - 1)
         IN  shorter \cup {Append(l, x) : l \in {m \in shorter : Len(m) = n - 1},
                                          x \in NameChoices(n)}

Exit0(value) ==
    [kind |-> "exit", code |-> 0, stdout |-> json_dumps(value) \o <<NL>>,
     stderr |-> <<>>]

JxaReplies ==
    {Exit0(JList([i \in 1..Len(l) |-> JStr(<<l[i]>>)])) : l \in NameLists(MaxNames)}
    \cup {Exit0(JStr(<<"E", "i", "n", "g", "a", "n", "g">>)),
          Exit0(JStr(<<>>)),
          Exit0(JDict(<<>>)),
          Exit0(JDict(<< <<<<"name">>, JStr(<<"Eingang">>)>> >>)),
          Exit0(JLit("7")),
          Exit0(JLit("null")),
          Exit0(JList(<<JLit("7"), JStr(<<"Heute">>)>>)),
          [kind |-> "exit", code |-> 0, stdout |-> <<>>, stderr |-> <<>>],
          [kind |-> "exit", code |-> 0, stdout |-> <<"not", " ", "json">>,
           stderr |-> <<>>],
          [kind |-> "exit", code |-> 1, stdout |-> <<>>,
           stderr |-> <<"Error", ":", " ", "Application", " ", "isn't", " ",
                        "running", NL>>],
          [kind |-> "exit", code |-> 1, stdout |-> <<>>,
           stderr |-> <<"SyntaxError", NL>>],
          [kind |-> "timeout"],
          [kind |-> "missing"]}

InitDetect ==
    /\ Idle
    /\ \E reply \in JxaReplies :
          call = [fn |-> "detect_list_names", arg |-> reply, ret |-> Pending,
                  done |-> FALSE]

CallDetectListNames ==
    /\ call.fn = "detect_list_names" /\ ~call.done
    /\ call' = [call EXCEPT !.ret = detect_list_names(call.arg),
                            !.done = TRUE]
    /\ UNCHANGED <<pc, command, args, auth_token, params, built, dispatched,
                   launched, console, exit_code, osascript, written>>

SpecDetect == InitDetect /\ [][CallDetectListNames]_vars

\* The names of a reply that is a list of strings, else the empty sequence.
ReplyNames ==
    LET r == call.arg
        parsed == json_loads(Strip(r.stdout))
    IN  IF r.kind = "exit" /\ r.code = 0 /\ parsed.ok /\ parsed.value.j = "list"
           /\ \A i \in 1..Len(parsed.value.v) : parsed.value.v[i].j = "str"
        THEN [i \in 1..Len(parsed.value.v) |-> parsed.value.v[i].v]
        ELSE <<>>

(***************************************************************************)
(* C10: from six list names, detection binds inbox, today, upcoming,       *)
(* anytime, someday, logbook to the names at positions 1 to 6, and         *)
(* tomorrow to Morgen when the Inbox name is Eingang, to Tomorrow when it  *)
(* is Inbox, and to Morgen when it is neither; the German names give the   *)
(* German table.                                                           *)
(***************************************************************************)
C10_DetectedMap ==
    (Called("detect_list_names") /\ Len(ReplyNames) = 6) =>
        LET n == ReplyNames
            map == call.ret.value
        IN  /\ DOMAIN map = {"inbox", "today", "upcoming", "anytime",
                             "someday", "logbook", "tomorrow"}
            /\ map["inbox"] = S(n[1])
            /\ map["today"] = S(n[2])
            /\ map["upcoming"] = S(n[3])
            /\ map["anytime"] = S(n[4])
            /\ map["someday"] = S(n[5])
            /\ map["logbook"] = S(n[6])
            /\ n[1] = <<"Eingang">> => map["tomorrow"] = S(<<"Morgen">>)
            /\ n[1] = <<"Inbox">> => map["tomorrow"] = S(<<"Tomorrow">>)
            /\ n[1] \notin {<<"Eingang">>, <<"Inbox">>} =>
                  map["tomorrow"] = S(<<"Morgen">>)
            /\ n = <<<<"Eingang">>, <<"Heute">>, <<"Geplant">>, <<"Jederzeit">>,
                     <<"Irgendwann">>, <<"Logbuch">>>> =>
                  /\ map = LOCALE_MAPPINGS["de"]
                  /\ call.ret.console = <<>>

\* The German names, detected and mapped.
C10_Witness ==
    /\ Called("detect_list_names")
    /\ ReplyNames = <<<<"Eingang">>, <<"Heute">>, <<"Geplant">>,
                      <<"Jederzeit">>, <<"Irgendwann">>, <<"Logbuch">>>>
    /\ call.ret.value["upcoming"] = S(<<"Geplant">>)
    /\ call.ret.value["tomorrow"] = S(<<"Morgen">>)
    /\ call.ret.console = <<>>

(***************************************************************************)
(* C11: every detection failure -- an interpreter error (timeout, missing  *)
(* interpreter, nonzero exit), output that does not parse, or output of an *)
(* unexpected shape (fewer than six names, or not a sequence of names) --  *)
(* makes detect_list_names return the complete seven-key table of the      *)
(* fallback locale and print a warning.  The code does so only when an     *)
(* exception is raised: a short list, a dict or a string is zipped as it   *)
(* is, without a warning.                                                  *)
(***************************************************************************)
\* The reply is not six or more list names.
DetectionFailed ==
    LET r == call.arg
        Shaped(parsed) ==
            /\ parsed.ok
            /\ parsed.value.j = "list"
            /\ Len(parsed.value.v) >= Len(english_keys)
            /\ \A i \in 1..Len(parsed.value.v) : parsed.value.v[i].j = "str"
    IN  \/ r.kind # "exit"
        \/ r.code # 0
        \/ ~Shaped(json_loads(Strip(r.stdout)))

C11_FallbackOnFailure ==
    (Called("detect_list_names") /\ DetectionFailed) =>
        /\ call.ret.value = LOCALE_MAPPINGS["de"]
        /\ call.ret.console # <<>>
        /\ call.ret.console[1][1] = "warning"

(***************************************************************************)
(* run_jxa called directly: the initial state draws what the subprocess    *)
(* does, one action applies run_jxa to it.                                 *)
(***************************************************************************)
MaxOut == 2       \* tokens in the standard output of a direct run_jxa call

\* The diagnostics the interpreter can write to its standard error.
Diagnostics ==
    {<<>>,
     <<"Error", ":", " ", "Application", " ", "isn't", " ", "running", NL>>,
     <<" ", "Things3", " ", "got", " ", "an", " ", "error", NL>>,
     <<"SyntaxError", ":", " ", "Unexpected", " ", "token", NL>>,
     <<NL, "Error", ":", " ", "List", " ", "not", " ", "found", NL>>}

\* What the subprocess can do: exceed the timeout, be missing, or exit.
SubprocessResults ==
    {[kind |-> "timeout"], [kind |-> "missing"]}
    \cup [kind : {"exit"}, code : {0, 1, 2},
          stdout : Strings({"[]", " ", NL}, MaxOut), stderr : Diagnostics]

InitRunJxa ==
    /\ Idle
    /\ \E reply \in SubprocessResults :
          call = [fn |-> "run_jxa", arg |-> reply, ret |-> Pending,
                  done |-> FALSE]

CallRunJxa ==
    /\ call.fn = "run_jxa" /\ ~call.done
    /\ call' = [call EXCEPT !.ret = run_jxa(DetectScript, call.arg),
                            !.done = TRUE]
    /\ UNCHANGED <<pc, command, args, auth_token, params, built, dispatched,
                   launched, console, exit_code, osascript, written>>

SpecRunJxa == InitRunJxa /\ [][CallRunJxa]_vars

\* The text holds the word.
Mentions(text, word) == \E i \in 1..Len(text) : text[i] = word

(***************************************************************************)
(* C12: every run of the interpreter ends in exactly one outcome, decided  *)
(* by what the subprocess did: exit status zero returns the standard       *)
(* output (trimmed of surrounding whitespace); a timeout raises the        *)
(* timed-out error; a missing interpreter raises the osascript-not-found   *)
(* error; a nonzero exit whose diagnostic names Things3 or Application     *)
(* raises could-not-connect; any other nonzero exit raises script-failed   *)
(* with the (trimmed) diagnostic text.                                     *)
(***************************************************************************)
C12_OneOutcome ==
    Called("run_jxa") =>
        LET r == call.arg
            ret == call.ret
            refers == r.kind = "exit" /\
                      (Mentions(r.stderr, "Things3")
                         \/ Mentions(r.stderr, "Application"))
        IN  /\ (r.kind = "exit" /\ r.code = 0) =>
                  (~ret.raised /\ ret.out = Strip(r.stdout) /\ ret.error = <<>>)
            /\ r.kind = "timeout" =>
                  (ret.raised /\ ret.error = <<"timed-out">>)
            /\ r.kind = "missing" =>
                  (ret.raised /\ ret.error = <<"osascript-not-found">>)
            /\ (r.kind = "exit" /\ r.code # 0 /\ refers) =>
                  (ret.raised /\ ret.error = <<"could-not-connect">>)
            /\ (r.kind = "exit" /\ r.code # 0 /\ ~refers) =>
                  (ret.raised /\ Head(ret.error) = "script-failed"
                     /\ Tail(ret.error) = Strip(r.stderr))
            /\ ret.raised => ret.out = <<>>

\* A nonzero exit whose diagnostic names the host application.
C12_Witness ==
    /\ Called("run_jxa")
    /\ call.arg.kind = "exit" /\ call.arg.code = 1
    /\ Mentions(call.arg.stderr, "Things3")
    /\ call.ret.raised
    /\ call.ret.error = <<"could-not-connect">>

(***************************************************************************)
(* things_jxa: the query functions.  A script is a sequence of tokens: the *)
(* fixed pieces of its template, the quotes around an interpolated name,   *)
(* and the tokens of the name as the f-string puts them in.                *)
(***************************************************************************)
\* str(x) as an f-string formats a label: a string as it is, a JSON number,
\* boolean or null by its Python name.
PyStr(x) ==
    IF x.t = "str" THEN x.v
    ELSE CASE x.v.v = "null" -> <<"None">>
           [] x.v.v = "true" -> <<"True">>
           [] x.v.v = "false" -> <<"False">>
           [] OTHER -> <<x.v.v>>

\* The script of get_list_tasks for a localized name.
ListTasksScript(name) ==
    <<"lists: if (lists[i].name() === ", "\"">> \o name
        \o <<"\"", ") ...; throw new Error(", "\"", "List not found: ">>
        \o name \o <<"\"", "); JSON.stringify(targetList.toDos())">>

\* The script of get_tasks_by_tag.
TagScript(tag_name) ==
    <<"toDos: if (tags.includes(", "\"">> \o tag_name
        \o <<"\"", ")) ...; JSON.stringify(result)">>

\* The script of get_tasks_by_area.
AreaScript(area_name) ==
    <<"areas: if (areas[i].name() === ", "\"">> \o area_name
        \o <<"\"", ") ...; throw new Error(", "\"", "Area not found: ">>
        \o area_name \o <<"\"", "); JSON.stringify(targetArea.toDos())">>

\* The script of get_tasks_by_project.
ProjectScript(project_name) ==
    <<"projects: if (projects[i].name() === ", "\"">> \o project_name
        \o <<"\"", ") ...; throw new Error(", "\"", "Project not found: ">>
        \o project_name
        \o <<"\"", "); JSON.stringify(targetProject.toDos())">>

\* The scripts of get_all_tags, get_all_areas and get_all_projects.
AllTagsScript == <<"JSON.stringify(things.tags().map(name))">>
AllAreasScript == <<"JSON.stringify(things.areas().map(name, taskCount))">>
AllProjectsScript == <<"JSON.stringify(things.projects().map(fields))">>

\* What the host machine answers to a script: host.detect to the script of
\* detect_list_names, host.query to any other.
HostReply(host, script) ==
    IF script = DetectScript THEN host.detect ELSE host.query

\* A mutant of run_query: a failed launch is tried once more.
run_query_retry(script, host, before, out) ==
    LET launch == [script |-> script, reply |-> HostReply(host, script)]
        Loaded(parsed) ==
            IF parsed.ok
            THEN [raised |-> "none", error |-> <<>>, value |-> parsed.value,
                  console |-> out, launches |-> Append(before, launch)]
            ELSE [raised |-> "Exception", error |-> <<"JSONDecodeError">>,
                  value |-> JLit("null"), console |-> out,
                  launches |-> Append(before, launch)]
        Returned(ran) ==
            IF ran.raised
            THEN [raised |-> "RuntimeError", error |-> ran.error,
                  value |-> JLit("null"), console |-> out,
                  launches |-> Append(Append(before, launch), launch)]
            ELSE Loaded(json_loads(ran.out))
    IN  Returned(run_jxa(script, launch.reply))

\* `output = run_jxa(script); return json.loads(output)`: the tail of every
\* query function.  `before` holds the launches and `out` the warnings of
\* the function so far.
run_query(script, host, before, out) ==
    LET launch == [script |-> script, reply |-> HostReply(host, script)]
        Loaded(parsed) ==
            IF parsed.ok
            THEN [raised |-> "none", error |-> <<>>, value |-> parsed.value,
                  console |-> out, launches |-> Append(before, launch)]
            ELSE [raised |-> "Exception", error |-> <<"JSONDecodeError">>,
                  value |-> JLit("null"), console |-> out,
                  launches |-> Append(before, launch)]
        Returned(ran) ==
            IF ran.raised
            THEN [raised |-> "RuntimeError", error |-> ran.error,
                  value |-> JLit("null"), console |-> out,
                  launches |-> Append(before, launch)]
            ELSE Loaded(json_loads(ran.out))
    IN  Returned(run_jxa(script, launch.reply))

\* The locale code names an entry of LOCALE_MAPPINGS.
InTable(locale) == \E k \in DOMAIN LOCALE_MAPPINGS : locale.v = <<k>>

\* A mutant of localized_name: the key is looked up as the caller wrote it.
localized_name_nolower(name_mapping, list_name) ==
    IF \E k \in DOMAIN name_mapping : list_name = <<k>>
    THEN PyStr(name_mapping[CHOOSE k \in DOMAIN name_mapping :
                               list_name = <<k>>])
    ELSE list_name

\* name_mapping.get(list_name.lower(), list_name).
localized_name(name_mapping, list_name) ==
    LET key == Lower(list_name)
    IN  IF \E k \in DOMAIN name_mapping : key = <<k>>
        THEN PyStr(name_mapping[CHOOSE k \in DOMAIN name_mapping : key = <<k>>])
        ELSE list_name

\* The locale is given, is not "auto" and is in the table: no detection.
static_locale(locale) ==
    Truthy(locale) /\ locale.v # <<"auto">> /\ InTable(locale)

\* get_list_tasks(list_name, locale): the result of run_query, with the
\* name_mapping it resolved.
get_list_tasks(list_name, locale, host) ==
    LET Query(name_mapping, before, out) ==
            run_query(ListTasksScript(localized_name(name_mapping, list_name)),
                      host, before, out)
            @@ [name_mapping |-> name_mapping]
        Detected(d) ==
            Query(d.value,
                  <<[script |-> DetectScript, reply |-> host.detect]>>,
                  d.console)
    IN  IF static_locale(locale)
        THEN Query(LOCALE_MAPPINGS[CHOOSE k \in DOMAIN LOCALE_MAPPINGS :
                                      locale.v = <<k>>], <<>>, <<>>)
        ELSE Detected(detect_list_names(host.detect))

get_tasks_by_tag(tag_name, host) ==
    run_query(TagScript(tag_name), host, <<>>, <<>>)

get_tasks_by_area(area_name, host) ==
    run_query(AreaScript(area_name), host, <<>>, <<>>)

get_tasks_by_project(project_name, host) ==
    run_query(ProjectScript(project_name), host, <<>>, <<>>)

get_all_tags(host) == run_query(AllTagsScript, host, <<>>, <<>>)
get_all_areas(host) == run_query(AllAreasScript, host, <<>>, <<>>)
get_all_projects(host) == run_query(AllProjectsScript, host, <<>>, <<>>)

(***************************************************************************)
(* The list command.                                                       *)
(***************************************************************************)
\* The indentation of json.dumps(..., indent=2) at a nesting level.
Indent(level) == [i \in 1..(2 * level) |-> " "]

\* json.dumps(v, indent=2): one element or member per line, indented by
\* two spaces per level; empty lists and dicts stay on one line.
RECURSIVE json_dumps_indent(_, _)
json_dumps_indent(v, level) ==
    CASE v.j = "str" -> <<"\"">> \o v.v \o <<"\"">>
      [] v.j = "lit" -> <<v.v>>
      [] v.j = "list" ->
           IF v.v = <<>> THEN <<"[", "]">>
           ELSE <<"[", NL>> \o Indent(level + 1)
                \o JoinSeq(<<",", NL>> \o Indent(level + 1),
                           [i \in 1..Len(v.v) |->
                               json_dumps_indent(v.v[i], level + 1)])
                \o <<NL>> \o Indent(level) \o <<"]">>
      [] v.j = "dict" ->
           IF v.v = <<>> THEN <<"{", "}">>
           ELSE <<"{", NL>> \o Indent(level + 1)
                \o JoinSeq(<<",", NL>> \o Indent(level + 1),
                           [i \in 1..Len(v.v) |->
                               <<"\"">> \o v.v[i][1] \o <<"\"", ":", " ">>
                               \o json_dumps_indent(v.v[i][2], level + 1)])
                \o <<NL>> \o Indent(level) \o <<"}">>

\* `view in [...]` of the list command.
BuiltInViews ==
    {"today", "inbox", "upcoming", "anytime", "someday", "logbook",
     "tomorrow"}

\* The view is one of the given names.
ViewIn(view, names) == view.t = "str" /\ \E n \in names : view.v = <<n>>

\* A mutant of list: a filter is looked at before the view, so a --tag
\* given with a metadata or built-in view wins.
list_filters_first(a, host) ==
    LET Result(q) ==
            [console |-> q.console \o
                 (CASE q.raised = "none" ->
                         <<<<"print", json_dumps_indent(q.value, 0)>>>>
                    [] q.raised = "RuntimeError" -> <<<<"error", q.error>>>>
                    [] OTHER -> <<<<"unexpected-error", q.error>>>>),
             exit_code |-> IF q.raised = "none" THEN 0 ELSE 1,
             osascript |-> q.launches]
    IN  IF ~a["jxa_available"].v
        THEN [console |-> <<<<"error-no-jxa", <<>>>>>>, exit_code |-> 1,
              osascript |-> <<>>]
        ELSE IF Truthy(a["tag"])
        THEN Result(get_tasks_by_tag(a["tag"].v, host))
        ELSE IF ViewIn(a["view"], {"tags"}) THEN Result(get_all_tags(host))
        ELSE IF ViewIn(a["view"], {"areas"}) THEN Result(get_all_areas(host))
        ELSE IF ViewIn(a["view"], {"projects"})
        THEN Result(get_all_projects(host))
        ELSE IF Truthy(a["view"]) /\ ViewIn(a["view"], BuiltInViews)
        THEN Result(get_list_tasks(a["view"].v, None, host))
        ELSE IF Truthy(a["area"])
        THEN Result(get_tasks_by_area(a["area"].v, host))
        ELSE IF Truthy(a["project"])
        THEN Result(get_tasks_by_project(a["project"].v, host))
        ELSE [console |-> <<<<"help", <<>>>>, <<"error", <<>>>>>>,
              exit_code |-> 1, osascript |-> <<>>]

\* The list command on option values a, on a machine that answers as host:
\* what it prints, its exit code and the interpreter launches it made.  A
\* RuntimeError is printed as an error, any other exception as an unexpected
\* error, both with exit code 1; typer.Exit(1) of the help branch is a
\* RuntimeError too and passes through the first handler.
list(a, host) ==
    LET Result(q) ==
            [console |-> q.console \o
                 (CASE q.raised = "none" ->
                         <<<<"print", json_dumps_indent(q.value, 0)>>>>
                    [] q.raised = "RuntimeError" -> <<<<"error", q.error>>>>
                    [] OTHER -> <<<<"unexpected-error", q.error>>>>),
             exit_code |-> IF q.raised = "none" THEN 0 ELSE 1,
             osascript |-> q.launches]
    IN  IF ~a["jxa_available"].v
        THEN [console |-> <<<<"error-no-jxa", <<>>>>>>, exit_code |-> 1,
              osascript |-> <<>>]
        ELSE IF ViewIn(a["view"], {"tags"}) THEN Result(get_all_tags(host))
        ELSE IF ViewIn(a["view"], {"areas"}) THEN Result(get_all_areas(host))
        ELSE IF ViewIn(a["view"], {"projects"})
        THEN Result(get_all_projects(host))
        ELSE IF Truthy(a["view"]) /\ ViewIn(a["view"], BuiltInViews)
        THEN Result(get_list_tasks(a["view"].v, None, host))
        ELSE IF Truthy(a["tag"])
        THEN Result(get_tasks_by_tag(a["tag"].v, host))
        ELSE IF Truthy(a["area"])
        THEN Result(get_tasks_by_area(a["area"].v, host))
        ELSE IF Truthy(a["project"])
        THEN Result(get_tasks_by_project(a["project"].v, host))
        ELSE [console |-> <<<<"help", <<>>>>, <<"error", <<>>>>>>,
              exit_code |-> 1, osascript |-> <<>>]

\* --- the machine the list command runs on ---
\* A task record as the query scripts return it.
Task ==
    JDict(<< <<<<"id">>, JStr(<<"T1">>)>>,
             <<<<"name">>, JStr(<<"Buy", " ", "milk">>)>>,
             <<<<"dueDate">>, JLit("null")>> >>)

\* The answers to the script of detect_list_names.
DetectReplies ==
    {Exit0(JList([i \in 1..6 |-> JStr(<<english_keys_de[i]>>)])) :
        english_keys_de \in
           {<<"Eingang", "Heute", "Geplant", "Jederzeit", "Irgendwann",
              "Logbuch">>,
            <<"Inbox", "Today", "Upcoming", "Anytime", "Someday",
              "Logbook">>}}
    \cup {Exit0(JList(<<JStr(<<"Eingang">>), JStr(<<"Heute">>)>>)),
          [kind |-> "exit", code |-> 0, stdout |-> <<"not", " ", "json">>,
           stderr |-> <<>>],
          [kind |-> "exit", code |-> 1, stdout |-> <<>>,
           stderr |-> <<"Error", ":", " ", "Application", " ", "isn't", " ",
                        "running", NL>>],
          [kind |-> "timeout"],
          [kind |-> "missing"]}

\* The answers to a query script.
QueryReplies ==
    {Exit0(JList(<<>>)),
     Exit0(JList(<<Task>>)),
     [kind |-> "exit", code |-> 0, stdout |-> <<>>, stderr |-> <<>>],
     [kind |-> "exit", code |-> 1, stdout |-> <<>>,
      stderr |-> <<"Error", ":", " ", "List", " ", "not", " ", "found", NL>>],
     [kind |-> "timeout"],
     [kind |-> "missing"]}

\* A machine without the interpreter answers every script the same way.
Hosts ==
    {h \in [detect : DetectReplies, query : QueryReplies] :
        h.detect.kind = "missing" <=> h.query.kind = "missing"}

\* The view names a command line can give: the ten the command knows, one
\* it does not, one in another case, and none.
ViewNames ==
    {None} \cup {S(<<n>>) : n \in BuiltInViews \cup
                    {"tags", "areas", "projects", "bogus", "Today"}}

\* A tag name that holds a quote.
QuoteName == <<"x", "\"", ")", ";", "evil", "(", "\"">>

ListArgSets ==
    [view : ViewNames,
     tag : {None, S(<<"work">>), S(QuoteName)},
     area : {None, S(<<"Home">>)},
     project : {None, S(<<"Trip">>)},
     jxa_available : {B(TRUE), B(FALSE)}]

\* A read command ran on option values a and left r.
RanRead(cmd, a, r) ==
    /\ pc' = "done"
    /\ command' = cmd
    /\ args' = a
    /\ console' = r.console
    /\ exit_code' = r.exit_code
    /\ osascript' = r.osascript
    /\ UNCHANGED <<auth_token, params, built, dispatched, launched, written,
                   call>>

\* The state keeps the machine's answers beside the options.
List ==
    /\ pc = "idle"
    /\ \E a \in ListArgSets, host \in Hosts :
          \E r \in {list(a, host)} : RanRead("list", a @@ [host |-> host], r)

(***************************************************************************)
(* export: the templates and the file it writes.                           *)
(***************************************************************************)
\* A {"type": ..., "attributes": {...}} object of a template.
Item(type, attributes) ==
    JDict(<< <<<<"type">>, JStr(<<type>>)>>,
             <<<<"attributes">>, JDict(attributes)>> >>)

Titled(type, title) == Item(type, << <<<<"title">>, JStr(title)>> >>)

TemplateTypes == {<<"task">>, <<"project">>, <<"batch">>}

\* The `templates` dict of export_template.
templates(template_type) ==
    CASE template_type = <<"task">> ->
           JList(<< Item("to-do",
                      << <<<<"title">>, JStr(<<"Example", " ", "Task">>)>>,
                         <<<<"notes">>,
                           JStr(<<"Task", " ", "notes", " ", "here">>)>>,
                         <<<<"when">>, JStr(<<"today">>)>>,
                         <<<<"tags">>, JList(<<JStr(<<"existing-tag1">>),
                                               JStr(<<"existing-tag2">>)>>)>>,
                         <<<<"checklist-items">>,
                           JList(<<Titled("checklist-item",
                                          <<"Subtask", " ", "1">>),
                                   Titled("checklist-item",
                                          <<"Subtask", " ", "2">>)>>)>> >>) >>)
      [] template_type = <<"project">> ->
           JList(<< Item("project",
                      << <<<<"title">>, JStr(<<"Example", " ", "Project">>)>>,
                         <<<<"notes">>, JStr(<<"Project", " ", "notes">>)>>,
                         <<<<"tags">>, JList(<<JStr(<<"existing-tag">>)>>)>>,
                         <<<<"items">>,
                           JList(<<Titled("to-do", <<"First", " ", "task">>),
                                   Titled("heading", <<"Section", " ", "1">>),
                                   Titled("to-do",
                                          <<"Task", " ", "in", " ",
                                            "section">>)>>)>> >>) >>)
      [] template_type = <<"batch">> ->
           JList(<< Item("to-do",
                      << <<<<"title">>, JStr(<<"Task", " ", "1">>)>>,
                         <<<<"when">>, JStr(<<"today">>)>> >>),
                    Item("to-do",
                      << <<<<"title">>, JStr(<<"Task", " ", "2">>)>>,
                         <<<<"when">>, JStr(<<"tomorrow">>)>> >>),
                    Item("project",
                      << <<<<"title">>,
                           JStr(<<"Project", " ", "with", " ", "tasks">>)>>,
                         <<<<"items">>,
                           JList(<<Titled("to-do", <<"Subtask", " ", "1">>),
                                   Titled("to-do",
                                          <<"Subtask", " ", "2">>)>>)>> >>) >>)

\* A mutant of export_template: it writes the template's first object
\* instead of the list around it.
export_template_unwrapped(a, writable) ==
    IF a["template_type"].v \notin TemplateTypes
    THEN [console |-> <<<<"error-unknown-type", a["template_type"].v>>,
                        <<"available-types", <<>>>>>>,
          exit_code |-> 1, written |-> <<>>]
    ELSE IF ~writable
    THEN [console |-> <<<<"error-writing", <<>>>>>>, exit_code |-> 1,
          written |-> <<>>]
    ELSE [console |-> <<<<"exported", a["output"].v>>>>, exit_code |-> 0,
          written |-> <<[path |-> a["output"].v,
                         content |-> json_dumps_indent(
                             templates(a["template_type"].v).v[1], 0)]>>]

\* export: an unknown type is an error before any file is opened; else the
\* template is written with json.dump(..., indent=2), and an IOError of
\* open (`writable` false) is an error.
export_template(a, writable) ==
    IF a["template_type"].v \notin TemplateTypes
    THEN [console |-> <<<<"error-unknown-type", a["template_type"].v>>,
                        <<"available-types", <<>>>>>>,
          exit_code |-> 1, written |-> <<>>]
    ELSE IF ~writable
    THEN [console |-> <<<<"error-writing", <<>>>>>>, exit_code |-> 1,
          written |-> <<>>]
    ELSE [console |-> <<<<"exported", a["output"].v>>>>, exit_code |-> 0,
          written |-> <<[path |-> a["output"].v,
                         content |-> json_dumps_indent(
                             templates(a["template_type"].v), 0)]>>]

\* The arguments of export: the output path and --type.
ExportArgSets ==
    { [o \in {"output", "template_type"} |->
          IF o = "output" THEN S(out) ELSE S(type)]
      : out \in {<<"out.json">>, <<"my", " ", "tasks.json">>},
        type \in TemplateTypes \cup {<<"bogus">>, <<"Task">>, <<>>} }

Export ==
    /\ pc = "idle"
    /\ \E a \in ExportArgSets, writable \in BOOLEAN :
          \E r \in {export_template(a, writable)} :
              /\ pc' = "done"
              /\ command' = "export"
              /\ args' = a @@ [writable |-> writable]
              /\ console' = r.console
              /\ exit_code' = r.exit_code
              /\ written' = r.written
              /\ UNCHANGED <<auth_token, params, built, dispatched, launched,
                             osascript, call>>

\* --- the command line: one command per run ---
Next ==
    \/ Add
    \/ AddProject
    \/ Update
    \/ UpdateProject
    \/ Show
    \/ Search
    \/ Version
    \/ JsonCommand
    \/ ImportJson
    \/ List
    \/ Export

Spec == Init /\ [][Next]_vars

\* The list command ran.
Listed == pc = "done" /\ command = "list"

\* The k-th launch of the interpreter timed out.
TimedOut(k) == osascript[k].reply.kind = "timeout"

\* The k-th launch ran the script of detect_list_names.
IsDetection(k) == osascript[k].script = DetectScript

\* The command ended with the timed-out error and exit code 1.
SurfacedTimeout ==
    /\ exit_code = 1
    /\ console # <<>>
    /\ console[Len(console)] = <<"error", <<"timed-out">>>>

(***************************************************************************)
(* C13 as stated: whenever a launch of the interpreter made for a list     *)
(* query times out, the detection launch included, the command ends with   *)
(* the timed-out error.  It fails for the detection launch, whose timeout  *)
(* detect_list_names turns into the fallback warning.                      *)
(***************************************************************************)
C13_AsStated ==
    Listed => \A k \in 1..Len(osascript) : TimedOut(k) => SurfacedTimeout

(***************************************************************************)
(* C13: whenever a launch of the interpreter other than the detection      *)
(* launch times out, the list command ends with the timed-out error and    *)
(* exit code 1, and launches nothing after it; when the detection launch   *)
(* times out, the fallback warning names the timeout and the list query    *)
(* is launched next, with the German label.                                *)
(***************************************************************************)
C13_QueryTimeout ==
    Listed =>
        \A k \in 1..Len(osascript) :
            TimedOut(k) =>
                IF IsDetection(k)
                THEN /\ k = 1 /\ Len(osascript) = 2
                     /\ console[1] =
                           <<"warning", <<"locale-fallback", "timed-out">>>>
                     /\ osascript[2].script =
                           ListTasksScript(
                              LOCALE_MAPPINGS["de"][args["view"].v[1]].v)
                ELSE k = Len(osascript) /\ SurfacedTimeout

\* The query for the tag timed out.
C13_Witness ==
    /\ Listed
    /\ args["view"] = None /\ args["tag"] = S(<<"work">>)
    /\ Len(osascript) = 1 /\ TimedOut(1)
    /\ console = <<<<"error", <<"timed-out">>>>>>
    /\ exit_code = 1

\* The views that only enumerate tags, areas or projects.
MetadataViews == {"tags", "areas", "projects"}

(***************************************************************************)
(* C14 as stated: every run of the list command that launches the          *)
(* interpreter launches it exactly once.  It fails for the built-in views, *)
(* which launch the detection script and then the list query.              *)
(***************************************************************************)
C14_AsStated == (Listed /\ osascript # <<>>) => Len(osascript) = 1

(***************************************************************************)
(* C14: a run of the list command with a metadata view (tags, areas,       *)
(* projects), or with a tag, area or project filter and no built-in view,  *)
(* launches the interpreter exactly once; a run with a built-in view       *)
(* launches it exactly twice, the detection script and then the query for  *)
(* the list, whatever the detection answered; no launch is repeated.       *)
(***************************************************************************)
C14_LaunchCount ==
    (Listed /\ args["jxa_available"].v) =>
        /\ ViewIn(args["view"], MetadataViews) =>
              (Len(osascript) = 1 /\ ~IsDetection(1))
        /\ ViewIn(args["view"], BuiltInViews) =>
              (Len(osascript) = 2 /\ IsDetection(1) /\ ~IsDetection(2))
        /\ (~ViewIn(args["view"], MetadataViews \cup BuiltInViews)
              /\ \E f \in {"tag", "area", "project"} : Truthy(args[f])) =>
              (Len(osascript) = 1 /\ ~IsDetection(1))
        /\ Len(osascript) <= 2

\* `list today` on a German host: two launches.
C14_Witness ==
    /\ Listed
    /\ args["view"] = S(<<"today">>)
    /\ Len(osascript) = 2
    /\ osascript[1].script = DetectScript
    /\ osascript[2].script = ListTasksScript(<<"Heute">>)
    /\ osascript[2].reply.kind = "timeout"

(***************************************************************************)
(* Export, then import of the exported file.                               *)
(***************************************************************************)
\* import run on the path the export was given: the file holds what the
\* export wrote, and is not there when the export wrote nothing.  The state
\* keeps the exported type beside the options of import.
ImportExported ==
    /\ pc = "done"
    /\ command = "export"
    /\ \E r \in BOOLEAN, dr \in BOOLEAN, env \in EnvTokens :
          LET a == [o \in {"data", "file", "reveal", "dry_run"} |->
                      CASE o = "data" -> None
                        [] o = "file" -> args["output"]
                        [] o = "reveal" -> B(r)
                        [] o = "dry_run" -> B(dr)]
              content == IF written = <<>> THEN None
                         ELSE S(written[1].content)
          IN  \E result \in OpenResultsFor(a) :
                \E ran \in {import_json(a, env, content, result)} :
                    Ran("import",
                        [a EXCEPT !["file"] = [t |-> @.t, name |-> @,
                                               content |-> content]]
                            @@ [template_type |-> args["template_type"]],
                        ran)

SpecRoundTrip == Init /\ [][Export \/ ImportExported]_vars

\* The value of the data parameter of a URL, percent-decoded.
DataOf(url) ==
    LET pairs == QueryPairs(url)
        k == CHOOSE k \in 1..Len(pairs) : pairs[k][1] = <<"data">>
    IN  Unquote(pairs[k][2])

\* import ran on a file that export wrote.
ImportedExport == pc = "done" /\ command = "import" /\ written # <<>>

(***************************************************************************)
(* C15: exporting the task, project or batch template and importing the    *)
(* written file builds a json request (whenever import gets past its       *)
(* credential check) whose data parameter, percent-decoded and parsed, is  *)
(* the template that was exported.                                         *)
(***************************************************************************)
C15_RoundTrip ==
    ImportedExport =>
        /\ ~auth_required(auth_token, args["dry_run"].v) => Len(built) = 1
        /\ \A b \in 1..Len(built) :
              /\ built[b][2] = "json"
              /\ HasKey(built[b], "data")
              /\ json_loads(DataOf(built[b])).ok
              /\ json_loads(DataOf(built[b])).value
                    = templates(args["template_type"].v)

C15_Witness ==
    /\ ImportedExport
    /\ args["template_type"] = S(<<"batch">>)
    /\ written[1].content = json_dumps_indent(templates(<<"batch">>), 0)
    /\ Len(built) = 1
    /\ Len(launched) = 1
    /\ json_loads(DataOf(built[1])).value = templates(<<"batch">>)

\* A run of a command that sends the credential.
Credentialed ==
    pc = "done" /\ command \in {"update", "update-project", "json", "import"}

\* The credential is available: THINGS_TOKEN is set and not empty
\* (`if not token` of get_auth_token, `if not auth_token` of the commands).
CredentialAvailable == Truthy(auth_token)

(***************************************************************************)
(* C16: in every request built by update, update-project or json (and by   *)
(* import, its alias), the auth-token parameter is present if and only if  *)
(* the credential is available, and then carries exactly the credential;   *)
(* a dry run with THINGS_TOKEN unset or empty builds a request with no     *)
(* auth-token parameter.                                                   *)
(***************************************************************************)
C16_TokenIffAvailable ==
    Credentialed =>
        \A b \in 1..Len(built) :
            LET pairs == QueryPairs(built[b])
            IN  /\ HasKey(built[b], "auth-token") <=> CredentialAvailable
                /\ \A k \in 1..Len(pairs) :
                      pairs[k][1] = <<"auth-token">> =>
                          pairs[k][2] = quote(auth_token.v)

\* The part of C16 that the code keeps: with THINGS_TOKEN unset no request
\* carries an auth-token parameter, and with a non-empty value every
\* request carries it once, percent-encoded.
C16_UnsetOrSet ==
    (Credentialed /\ auth_token # S(<<>>)) =>
        \A b \in 1..Len(built) :
            LET pairs == QueryPairs(built[b])
            IN  /\ HasKey(built[b], "auth-token") <=> CredentialAvailable
                /\ \A k \in 1..Len(pairs) :
                      pairs[k][1] = <<"auth-token">> =>
                          pairs[k][2] = quote(auth_token.v)

\* A dry run of update with THINGS_TOKEN set to the empty string.
C16_EmptyTokenDryRun ==
    /\ Credentialed
    /\ command = "update"
    /\ auth_token = S(<<>>)
    /\ args["dry_run"].v
    /\ Len(built) = 1
    /\ HasKey(built[1], "auth-token")

\* A script with the bodies of its string literals left out: a literal runs
\* from a quote to the next quote that no backslash precedes.
RECURSIVE Skeleton(_, _)
Skeleton(s, inside) ==
    IF s = <<>> THEN <<>>
    ELSE IF Head(s) = "\"" THEN <<"\"">> \o Skeleton(Tail(s), ~inside)
    ELSE IF ~inside THEN <<Head(s)>> \o Skeleton(Tail(s), inside)
    ELSE IF Head(s) = "\\" /\ Len(s) >= 2 THEN Skeleton(Tail(Tail(s)), inside)
    ELSE Skeleton(Tail(s), inside)

\* The scripts of the bridge for a name that needs no escaping.
PlainScripts ==
    {DetectScript, AllTagsScript, AllAreasScript, AllProjectsScript,
     ListTasksScript(<<"x">>), TagScript(<<"x">>), AreaScript(<<"x">>),
     ProjectScript(<<"x">>)}

(***************************************************************************)
(* C17: every name interpolated into an automation script is escaped, so   *)
(* that the scripts generated for any two names differ only inside the     *)
(* string literals holding the name: each script that list launches is,    *)
(* outside its string literals, one of the scripts of the bridge.          *)
(***************************************************************************)
C17_NamesEscaped ==
    Listed =>
        \A k \in 1..Len(osascript) :
            \E plain \in PlainScripts :
                Skeleton(osascript[k].script, FALSE) = Skeleton(plain, FALSE)

\* The part of C17 that the code keeps: a name without a quote stays inside
\* its literal.
C17_QuoteFreeNames ==
    (Listed /\ \A o \in {"view", "tag", "area", "project"} :
                  Truthy(args[o]) => Count(args[o].v, "\"") = 0) =>
        \A k \in 1..Len(osascript) :
            \E plain \in PlainScripts :
                Skeleton(osascript[k].script, FALSE) = Skeleton(plain, FALSE)

\* list --tag with a tag name that holds a quote launched its script.
C17_QuoteInTag ==
    /\ Listed
    /\ args["tag"] = S(QuoteName)
    /\ Len(osascript) = 1
    /\ osascript[1].script = TagScript(QuoteName)

\* export ran.
Exported == pc = "done" /\ command = "export"

\* No process was launched and no file was written.
NothingDone == osascript = <<>> /\ launched = <<>> /\ written = <<>>

\* list was given a view name outside the ten it knows.
UnknownView ==
    /\ Listed
    /\ args["view"] # None
    /\ ~ViewIn(args["view"], BuiltInViews \cup MetadataViews)

(***************************************************************************)
(* C18: a command given an unrecognized name ends with exit code 1 and     *)
(* makes no external call and writes no file: export with a template type  *)
(* outside task, project, batch, and list with a view name outside the     *)
(* built-in and metadata views, whatever --tag, --area or --project        *)
(* filters come with that view name.                                       *)
(***************************************************************************)
C18_UnknownNameRejected ==
    /\ (Exported /\ args["template_type"].v \notin TemplateTypes) =>
            exit_code = 1 /\ NothingDone
    /\ UnknownView => exit_code = 1 /\ NothingDone

\* The part of C18 that the code keeps: export with an unknown type, and
\* list with an unknown view name and no filter.
C18_UnknownWithoutFilter ==
    /\ (Exported /\ args["template_type"].v \notin TemplateTypes) =>
            exit_code = 1 /\ NothingDone
    /\ (UnknownView /\ ~Truthy(args["tag"]) /\ ~Truthy(args["area"])
            /\ ~Truthy(args["project"])) =>
            exit_code = 1 /\ NothingDone

\* list with an unknown view name and a tag filter ran the tag query.
C18_UnknownViewWithTag ==
    /\ UnknownView
    /\ args["view"] = S(<<"bogus">>)
    /\ args["tag"] = S(<<"work">>)
    /\ exit_code = 0
    /\ Len(osascript) = 1
    /\ osascript[1].script = TagScript(<<"work">>)

\* The enumeration script of a metadata view.
EnumerationScript(view) ==
    CASE view = <<"tags">> -> AllTagsScript
      [] view = <<"areas">> -> AllAreasScript
      [] view = <<"projects">> -> AllProjectsScript

(***************************************************************************)
(* C19: list with the view tags, areas or projects does no locale          *)
(* detection and no locale-table lookup: it launches the enumeration       *)
(* script of that view and nothing else, also when --tag, --area or        *)
(* --project is given with it, and what it leaves is what it leaves        *)
(* without those filters.                                                  *)
(***************************************************************************)
C19_MetadataDirect ==
    (Listed /\ ViewIn(args["view"], MetadataViews)
        /\ args["jxa_available"].v) =>
        /\ Len(osascript) = 1
        /\ osascript[1].script = EnumerationScript(args["view"].v)
        /\ osascript[1].script # DetectScript
        /\ osascript[1].reply = args["host"].query
        /\ LET plain == list([view |-> args["view"], tag |-> None,
                              area |-> None, project |-> None,
                              jxa_available |-> B(TRUE)], args["host"])
           IN  /\ console = plain.console
               /\ exit_code = plain.exit_code
               /\ osascript = plain.osascript

C19_Witness ==
    /\ Listed
    /\ args["view"] = S(<<"tags">>)
    /\ args["tag"] = S(<<"work">>)
    /\ args["project"] = S(<<"Trip">>)
    /\ exit_code = 0
    /\ osascript = <<[script |-> AllTagsScript, reply |-> args["host"].query]>>
    /\ args["host"].detect.kind = "timeout"

(***************************************************************************)
(* get_list_tasks called on its own, with a locale.                        *)
(***************************************************************************)
\* The list names and locale codes of the calls: names in the canonical
\* case, in another case and unknown; codes of the table, `auto`, the empty
\* string, a code the table lacks, and none.
ListNames == {<<"today">>, <<"Today">>, <<"INBOX">>, <<"tomorrow">>,
              <<"logbook">>, <<"bogus">>}

Locales == {None, S(<<>>), S(<<"auto">>), S(<<"de">>), S(<<"en">>),
            S(<<"fr">>)}

InitListTasks ==
    /\ Idle
    /\ \E list_name \in ListNames, locale \in Locales, host \in Hosts :
          call = [fn |-> "get_list_tasks",
                  arg |-> [list_name |-> list_name, locale |-> locale,
                           host |-> host],
                  ret |-> Pending, done |-> FALSE]

CallGetListTasks ==
    /\ call.fn = "get_list_tasks" /\ ~call.done
    /\ call' = [call EXCEPT !.ret = get_list_tasks(call.arg.list_name,
                                                   call.arg.locale,
                                                   call.arg.host),
                            !.done = TRUE]
    /\ UNCHANGED <<pc, command, args, auth_token, params, built, dispatched,
                   launched, console, exit_code, osascript, written>>

SpecListTasks == InitListTasks /\ [][CallGetListTasks]_vars

\* The requested locale is a code of the fixed table and is not `auto`.
TableLocale(locale) ==
    /\ locale # None
    /\ locale.v # <<"auto">>
    /\ \E code \in DOMAIN LOCALE_MAPPINGS : locale.v = <<code>>

\* The name a Locale Map gives a list: its label for the lowercased name,
\* or the name unchanged when it has no entry for it.
LabelFor(map, list_name) ==
    IF \E key \in DOMAIN map : Lower(list_name) = <<key>>
    THEN PyStr(map[CHOOSE key \in DOMAIN map : Lower(list_name) = <<key>>])
    ELSE list_name

(***************************************************************************)
(* C20: get_list_tasks resolves its Locale Map in one of two modes.  For a *)
(* locale that is a code of the fixed table (and not `auto`) the map is    *)
(* that table entry and no detection script is launched; for no locale,    *)
(* `auto` or an unknown code the map is the result of auto-detection.  In  *)
(* both modes the list queried is the map's label for the lowercased name, *)
(* or the caller's name unchanged when the map has no entry for it.        *)
(***************************************************************************)
C20_TwoModes ==
    Called("get_list_tasks") =>
        LET a == call.arg
            r == call.ret
            n == Len(r.launches)
        IN  /\ TableLocale(a.locale) =>
                  /\ \E code \in DOMAIN LOCALE_MAPPINGS :
                        /\ a.locale.v = <<code>>
                        /\ r.name_mapping = LOCALE_MAPPINGS[code]
                  /\ n = 1
                  /\ r.launches[1].script # DetectScript
            /\ ~TableLocale(a.locale) =>
                  /\ r.name_mapping = detect_list_names(a.host.detect).value
                  /\ n = 2
                  /\ r.launches[1]
                        = [script |-> DetectScript, reply |-> a.host.detect]
            /\ r.launches[n].script
                  = ListTasksScript(LabelFor(r.name_mapping, a.list_name))

\* Static mode on a name in another case: `Today` under `de` queries Heute
\* although the host would have answered a detection otherwise.
C20_Witness ==
    /\ Called("get_list_tasks")
    /\ call.arg.list_name = <<"Today">>
    /\ call.arg.locale = S(<<"de">>)
    /\ call.arg.host.detect.kind = "exit"
    /\ call.ret.name_mapping = LOCALE_MAPPINGS["de"]
    /\ Len(call.ret.launches) = 1
    /\ call.ret.launches[1].script = ListTasksScript(<<"Heute">>)

\* Auto-detect mode on an unknown code and an unknown name.
C20_WitnessDetect ==
    /\ Called("get_list_tasks")
    /\ call.arg.list_name = <<"bogus">>
    /\ call.arg.locale = S(<<"fr">>)
    /\ Len(call.ret.launches) = 2
    /\ call.ret.launches[1].script = DetectScript
    /\ call.ret.launches[2].script = ListTasksScript(<<"bogus">>)

====
